---- MODULE Spec2Model ----
(***************************************************************************)
(* Model of the highlight / walkthrough engine of taskmapr/ui-overlay      *)
(* (src/src/contexts/HighlightContext.tsx).                                *)
(*                                                                         *)
(* JavaScript strings that the code inspects character by character (ids,  *)
(* names, keywords, queries) are sequences of one-character strings.       *)
(* Route paths are only compared for equality and stay TLA+ strings.       *)
(***************************************************************************)
EXTENDS Integers, Sequences, FiniteSets, Bags, TLC

\* ------------------------------------------------------------------------
\* Strings
\* ------------------------------------------------------------------------

UpperChars == <<"A","B","C","D","E","F","G","H","I","J","K","L","M",
                "N","O","P","Q","R","S","T","U","V","W","X","Y","Z">>

LowerChars == <<"a","b","c","d","e","f","g","h","i","j","k","l","m",
                "n","o","p","q","r","s","t","u","v","w","x","y","z">>

DigitChars == {"0","1","2","3","4","5","6","7","8","9"}

\* the characters matched by \s
IsSpace(c) == c \in {" ", "\t", "\n", "\r"}

ToLowerChar(c) ==
  IF \E i \in 1..Len(UpperChars) : UpperChars[i] = c
  THEN LowerChars[CHOOSE i \in 1..Len(UpperChars) : UpperChars[i] = c]
  ELSE c

\* String.prototype.toLowerCase
ToLowerCase(s) == [i \in 1..Len(s) |-> ToLowerChar(s[i])]

RECURSIVE TrimStart(_)
TrimStart(s) ==
  IF s # <<>> /\ IsSpace(Head(s)) THEN TrimStart(Tail(s)) ELSE s

RECURSIVE TrimEnd(_)
TrimEnd(s) ==
  IF s # <<>> /\ IsSpace(s[Len(s)]) THEN TrimEnd(SubSeq(s, 1, Len(s) - 1)) ELSE s

\* String.prototype.trim
Trim(s) == TrimEnd(TrimStart(s))

\* the characters matched by [-_\s]
IsSeparator(c) == c \in {"-", "_"} \/ IsSpace(c)

\* str.replace(/[-_\s]+/g, ' '): every maximal run of separators becomes one space
RECURSIVE CollapseSeparators(_)
CollapseSeparators(s) ==
  IF s = <<>> THEN <<>>
  ELSE IF IsSeparator(Head(s))
       THEN IF Len(s) > 1 /\ IsSeparator(s[2])
            THEN CollapseSeparators(Tail(s))
            ELSE <<" ">> \o CollapseSeparators(Tail(s))
       ELSE <<Head(s)>> \o CollapseSeparators(Tail(s))

\* the characters kept by str.replace(/[^a-z0-9\s]/g, '')
IsKept(c) ==
  \/ \E i \in 1..Len(LowerChars) : LowerChars[i] = c
  \/ c \in DigitChars
  \/ IsSpace(c)

StripSpecial(s) == SelectSeq(s, IsKept)

\* normalizeForMatching
normalizeForMatching(str) ==
  Trim(StripSpecial(CollapseSeparators(Trim(ToLowerCase(str)))))

\* String.prototype.includes
Includes(s, sub) ==
  \E i \in 0..(Len(s) - Len(sub)) : SubSeq(s, i + 1, i + Len(sub)) = sub

\* str.split(/\s+/): cur is the token being read, inRun says that the
\* previous character belonged to a whitespace run
RECURSIVE SplitAcc(_, _, _, _)
SplitAcc(s, cur, acc, inRun) ==
  IF s = <<>> THEN Append(acc, cur)
  ELSE IF IsSpace(Head(s))
       THEN IF inRun THEN SplitAcc(Tail(s), cur, acc, TRUE)
            ELSE SplitAcc(Tail(s), <<>>, Append(acc, cur), TRUE)
       ELSE SplitAcc(Tail(s), Append(cur, Head(s)), acc, FALSE)

SplitWhitespace(s) == SplitAcc(s, <<>>, <<>>, FALSE)

NonEmpty(w) == Len(w) > 0

\* ------------------------------------------------------------------------
\* Component registry and fuzzy resolution
\* ------------------------------------------------------------------------

\* The registry is a JavaScript Map: a sequence of descriptors in insertion
\* order, at most one per id.  A descriptor is
\*   [id, name, description, keywords, element]
\* where description = <<>> stands for an omitted description and element
\* is the identity of the DOM node.

\* the result of findComponent when nothing matches (null)
NoComponent == [none |-> TRUE]

\* Map.prototype.get
MapGet(comps, id) ==
  IF \E i \in 1..Len(comps) : comps[i].id = id
  THEN comps[CHOOSE i \in 1..Len(comps) : comps[i].id = id]
  ELSE NoComponent

\* (variant of MapSet that always adds an entry)
MapSetAppend(comps, c) == Append(comps, c)

\* Map.prototype.set: an existing key keeps its position
MapSet(comps, c) ==
  IF \E i \in 1..Len(comps) : comps[i].id = c.id
  THEN [i \in 1..Len(comps) |-> IF comps[i].id = c.id THEN c ELSE comps[i]]
  ELSE Append(comps, c)

\* Map.prototype.delete
MapDelete(comps, id) == SelectSeq(comps, LAMBDA c : c.id # id)

\* first descriptor in iteration order that satisfies P, or NoComponent
FirstMatch(comps, P(_)) ==
  IF \E i \in 1..Len(comps) : P(comps[i])
  THEN comps[CHOOSE i \in 1..Len(comps) :
               P(comps[i]) /\ \A j \in 1..(i - 1) : ~P(comps[j])]
  ELSE NoComponent

SeqExists(seq, P(_)) == \E i \in 1..Len(seq) : P(seq[i])

\* tier 6: the words of a descriptor (normalized keywords, name words, id words)
allWords(c) ==
  [i \in 1..Len(c.keywords) |-> normalizeForMatching(c.keywords[i])]
    \o SplitWhitespace(normalizeForMatching(c.name))
    \o SplitWhitespace(normalizeForMatching(c.id))

allWordsMatch(c, queryWords) ==
  \A q \in 1..Len(queryWords) :
    SeqExists(allWords(c), LAMBDA cWord :
      Includes(cWord, queryWords[q]) \/ Includes(queryWords[q], cWord))

\* findComponent, one tier after the other
Tier1(comps, nq) == FirstMatch(comps, LAMBDA c : normalizeForMatching(c.id) = nq)
\* (variant of Tier2 that takes the last match instead of the first)
Tier2Last(comps, nq) ==
  IF \E i \in 1..Len(comps) : normalizeForMatching(comps[i].name) = nq
  THEN comps[CHOOSE i \in 1..Len(comps) :
               /\ normalizeForMatching(comps[i].name) = nq
               /\ \A j \in (i + 1)..Len(comps) : normalizeForMatching(comps[j].name) # nq]
  ELSE NoComponent

Tier2(comps, nq) == FirstMatch(comps, LAMBDA c : normalizeForMatching(c.name) = nq)
Tier3(comps, query) == MapGet(comps, query)
Tier4(comps, nq) == FirstMatch(comps, LAMBDA c : Includes(normalizeForMatching(c.name), nq))
Tier5(comps, nq) ==
  FirstMatch(comps, LAMBDA c :
    SeqExists(c.keywords, LAMBDA kw : normalizeForMatching(kw) = nq))
Tier6(comps, nq) ==
  LET queryWords == SelectSeq(SplitWhitespace(nq), NonEmpty)
  IN  IF Len(queryWords) > 1
      THEN FirstMatch(comps, LAMBDA c : allWordsMatch(c, queryWords))
      ELSE NoComponent
Tier7(comps, nq) ==
  FirstMatch(comps, LAMBDA c :
    SeqExists(c.keywords, LAMBDA kw : Includes(normalizeForMatching(kw), nq)))
Tier8(comps, nq) ==
  FirstMatch(comps, LAMBDA c :
    c.description # <<>> /\ Includes(normalizeForMatching(c.description), nq))

\* (variant of findComponentIn that tries the partial name match first)
findComponentInLooseFirst(comps, query) ==
  LET nq == normalizeForMatching(query)
  IN  IF Tier4(comps, nq) # NoComponent THEN Tier4(comps, nq)
      ELSE IF Tier1(comps, nq) # NoComponent THEN Tier1(comps, nq)
      ELSE IF Tier2(comps, nq) # NoComponent THEN Tier2(comps, nq)
      ELSE IF Tier3(comps, query) # NoComponent THEN Tier3(comps, query)
      ELSE IF Tier5(comps, nq) # NoComponent THEN Tier5(comps, nq)
      ELSE IF Tier6(comps, nq) # NoComponent THEN Tier6(comps, nq)
      ELSE IF Tier7(comps, nq) # NoComponent THEN Tier7(comps, nq)
      ELSE IF Tier8(comps, nq) # NoComponent THEN Tier8(comps, nq)
      ELSE NoComponent

findComponentIn(comps, query) ==
  LET nq == normalizeForMatching(query)
  IN  IF Tier1(comps, nq) # NoComponent THEN Tier1(comps, nq)
      ELSE IF Tier2(comps, nq) # NoComponent THEN Tier2(comps, nq)
      ELSE IF Tier3(comps, query) # NoComponent THEN Tier3(comps, query)
      ELSE IF Tier4(comps, nq) # NoComponent THEN Tier4(comps, nq)
      ELSE IF Tier5(comps, nq) # NoComponent THEN Tier5(comps, nq)
      ELSE IF Tier6(comps, nq) # NoComponent THEN Tier6(comps, nq)
      ELSE IF Tier7(comps, nq) # NoComponent THEN Tier7(comps, nq)
      ELSE IF Tier8(comps, nq) # NoComponent THEN Tier8(comps, nq)
      ELSE NoComponent


\* ------------------------------------------------------------------------
\* Bounds and input domains
\* ------------------------------------------------------------------------

\* Date.now() readings range over 1..MaxClock; every startWalkthrough call
\* reads a later time than the one before
MaxClock == 2

\* at most MaxTimers settle / advance timers are pending at a time
MaxTimers == 2

\* the delays of the walkthrough engine, in ms
GraceDelay == 1000
StartSettleDelay == 100
NavSettleDelay == 500

Pages == {"/", "/features"}

\* the descriptor that the host page may register, and an id that is never
\* registered
IdA == <<"a">>
OtherId == <<"b">>
CompA == [id |-> IdA, name |-> <<"A">>, description |-> <<>>,
          keywords |-> <<>>, element |-> 1]
Candidates == {CompA}
ComponentIds == {c.id : c \in Candidates}
ClickIds == ComponentIds \cup {OtherId}

\* A WalkthroughStep: page = "" and duration = 0 stand for omitted fields
\* (both are falsy, as undefined is); waitForClick is "true", "false" or
\* "omitted".  All three queries normalize to "a".
ClickStep == [query |-> <<"a">>, page |-> "", duration |-> 0,
              waitForClick |-> "omitted"]
TimedStep == [query |-> <<"A">>, page |-> "/", duration |-> 500,
              waitForClick |-> "false"]
FarStep == [query |-> <<"_","a">>, page |-> "/features", duration |-> 0,
            waitForClick |-> "true"]

StepLists ==
  { <<>>,
    <<TimedStep, ClickStep>>,
    <<ClickStep, FarStep>> }

\* the selectors that the host passes to highlight and unhighlight
Selectors == {IdA, OtherId}

\* the durations passed to highlight; 0 stands for an omitted duration
Durations == {0, 500}

\* setTimeout hands out the handles 1..MaxHandles
MaxHandles == 3

\* the callers of startWalkthrough pass both callbacks; a resumed walkthrough
\* has none
CallbackChoices == {TRUE}

\* ------------------------------------------------------------------------
\* State
\* ------------------------------------------------------------------------

VARIABLES
  mounted,               \* the provider is mounted (FALSE after an effect threw)
  path,                  \* window.location.pathname
  currentPathRef,        \* currentPathRef.current
  components,            \* the components state (a Map, in insertion order)
  componentsRef,         \* componentsRef.current
  highlightedSelectors,  \* the highlightedSelectors state
  timeouts,              \* selectors of timeouts.current with a live timer
  activeWalkthrough,     \* the activeWalkthrough state
  activeWalkthroughRef,  \* activeWalkthroughRef.current
  storage,               \* localStorage[WALKTHROUGH_STORAGE_KEY], parsed
  timers,                \* bag of pending settle and advance timers
  now,                   \* the last reading of Date.now() (0: none yet)
  fired,                 \* the callbacks that the last handler invoked
  stopped                \* history: stopWalkthrough stopped a walkthrough and
                         \* neither startWalkthrough nor a reload came since

vars == <<mounted, path, currentPathRef, components, componentsRef,
          highlightedSelectors, timeouts, activeWalkthrough,
          activeWalkthroughRef, storage, timers, now, fired, stopped>>

\* The highlight controller in detail (the walkthrough engine above only
\* needs to know which selectors have a live auto-remove timer)
VARIABLES
  timeoutHandles,        \* timeouts.current: selector -> timer handle (0: no entry)
  pendingTimeouts,       \* the auto-remove timers that are still to run
  nextHandle,            \* the handle that the next setTimeout returns
  superseded             \* history: the handles of timers that a later highlight
                         \* call on the same selector cleared while they were pending

\* The resolver on its own
VARIABLES
  resolution             \* the last findComponent call: its query and its result

\* The agent client (createTaskMaprClient)
VARIABLES
  agentResponse,         \* what the agent backend answers to the request
  normalized,            \* the outcome of normalizeAssistantResponse
  messageHistory,        \* messageHistory
  phase,                 \* where sendMessage is: "idle", "streaming", "done"
  delivered,             \* handleSSEStream: the number of events read so far
  collected,             \* handleSSEStream: its actions array
  handlerCalls,          \* the calls of config.actionHandlers, in order
  streamingContent       \* streamingContent, the text streamed so far

\* The agent client over several requests
VARIABLES
  callbackLog,           \* the streaming callbacks called for the request, in order
  currentSessionId,      \* currentSessionId (<<>>: undefined)
  requests,              \* the sessionId each orchestrator request carried
  pendingReplies         \* what the backend answers to the later requests

\* The transport of the direct API call (fetchWithRetry and the abort timer)
VARIABLES
  retryAttempts,         \* config.retry.attempts
  fetchState,            \* "none", "inflight", "backoff" or "settled"
  attempt,               \* the attempt argument of the running fetchWithRetry
  fetchCalls,            \* how often fetch was called for the request
  aborted,               \* controller.signal.aborted
  abortTimer,            \* the abort timer (timeoutId) is pending
  backoffs,              \* the delays fetchWithRetry waited, in order
  failure,               \* the error sendMessage rejected with ("": none)
  deadlinePassed         \* the timeout of the running request has elapsed

requestVars == <<callbackLog, currentSessionId, requests, pendingReplies>>

transportVars == <<retryAttempts, fetchState, attempt, fetchCalls, aborted,
                   abortTimer, backoffs, failure, deadlinePassed>>

\* Faults of the browser storage
VARIABLES
  storageFault           \* "none"; "quota": writes throw; "denied": every
                         \* operation on localStorage throws

\* The document as HighlightScanner sees it, and the scanner's own record
VARIABLES
  document,              \* per element id: "absent", "plain", or "marked"
                         \* (the element carries a data-highlight-id attribute)
  registeredIds          \* registeredIds.current of the scanner

scannerVars == <<document, registeredIds>>

\* normalizeAssistantResponse on a payload built of objects that refer to
\* one another
VARIABLES
  heap,                  \* the objects and arrays of the payload, by reference
  search,                \* queue, visited and fallback of the search (Null:
                         \* not running)
  extraction,            \* the running stringifyContent call: its call stack,
                         \* its visited set and the text so far (Null: none)
  outcome                \* how the call ended (Null: it has not)

graphVars == <<heap, search, extraction, outcome>>

clientVars == <<agentResponse, normalized, messageHistory, phase, delivered,
                collected, handlerCalls, streamingContent, requestVars,
                transportVars>>

aux == <<timeoutHandles, pendingTimeouts, nextHandle, superseded, resolution,
         clientVars, storageFault, scannerVars, graphVars>>

\* null, for a walkthrough or a storage slot
Null == [null |-> TRUE]

\* DEFAULT_OPTIONS.retry
DefaultAttempts == 3
DefaultBackoff == 1000

\* how often the handler invoked wt.onComplete and wt.onStepChange
Fired(nComplete, nStepChange) ==
  [onComplete |-> nComplete, onStepChange |-> nStepChange]

NoneFired == Fired(0, 0)

\* (variant of Calls that invokes the callback without the ?. test)
CallsAlways(callback) == IF callback THEN 1 ELSE 1

\* wt.onComplete?.() and wt.onStepChange?.(): one call if the callback is there
Calls(callback) == IF callback THEN 1 ELSE 0

\* steps[index] with a 0-based index
StepAt(wt, index) == wt.steps[index + 1]

\* step.page || '/'
TargetPage(step) == IF step.page = "" THEN "/" ELSE step.page

\* step.waitForClick !== false
WaitForClick(step) == step.waitForClick # "false"

\* waitForClick ? undefined : step.duration   (0 is undefined)
HighlightDuration(step) == IF WaitForClick(step) THEN 0 ELSE step.duration

\* findComponent reads the registry through componentsRef
findComponent(query) == findComponentIn(componentsRef, query)

\* (variant of SavedBlob that writes the index the walkthrough started with)
SavedBlobAtStart(wt) ==
  [id |-> wt.id, steps |-> wt.steps, currentStepIndex |-> 0]

\* JSON.stringify of {id, steps, currentStepIndex} followed by JSON.parse:
\* the callbacks are not part of the blob
SavedBlob(wt) ==
  [id |-> wt.id, steps |-> wt.steps, currentStepIndex |-> wt.currentStepIndex]

\* (variant of ResumedWalkthrough that restarts at the first step)
ResumedWalkthroughAtStart(saved) ==
  [id |-> saved.id, steps |-> saved.steps, currentStepIndex |-> 0,
   onComplete |-> FALSE, onStepChange |-> FALSE]

\* the walkthrough object built from a blob (no callbacks)
ResumedWalkthrough(saved) ==
  [id |-> saved.id, steps |-> saved.steps,
   currentStepIndex |-> saved.currentStepIndex,
   onComplete |-> FALSE, onStepChange |-> FALSE]

NewWalkthrough(id, steps, callbacks) ==
  [id |-> id, steps |-> steps, currentStepIndex |-> 0,
   onComplete |-> callbacks, onStepChange |-> callbacks]

\* (variant of NextIndex that skips a step)
NextIndexSkip(wt) == wt.currentStepIndex + 2

\* wt.currentStepIndex + 1
NextIndex(wt) == wt.currentStepIndex + 1

\* A pending timer.  A settle callback closes over the step; an advance
\* callback only calls progressWalkthroughRef.current.  wid and idx record
\* the walkthrough and the step on whose behalf the timer was set.
SettleTimer(step, delay, wid, index) ==
  [kind |-> "settle", step |-> step, delay |-> delay, wid |-> wid, idx |-> index]

AdvanceTimer(delay, wid, index) ==
  [kind |-> "advance", step |-> <<>>, delay |-> delay, wid |-> wid, idx |-> index]

Schedule(bag, t) == bag (+) SetToBag({t})
Cancel(bag, t) == bag (-) SetToBag({t})

\* no request yet, no session, no later answers
RequestIdle ==
  /\ callbackLog = <<>>
  /\ currentSessionId = <<>>
  /\ requests = <<>>
  /\ pendingReplies = <<>>

\* no element with an id in the document, nothing scanned
ScannerIdle ==
  /\ document = [id \in ClickIds |-> "absent"]
  /\ registeredIds = {}

\* no payload under normalization
GraphIdle ==
  /\ heap = <<>>
  /\ search = Null
  /\ extraction = Null
  /\ outcome = Null

\* no fetch yet; attempts is config.retry.attempts
TransportIdle(attempts) ==
  /\ retryAttempts = attempts
  /\ fetchState = "none"
  /\ attempt = 0
  /\ fetchCalls = 0
  /\ aborted = FALSE
  /\ abortTimer = FALSE
  /\ backoffs = <<>>
  /\ failure = ""
  /\ deadlinePassed = FALSE

\* the client before any request, with no agent response drawn
ClientIdle ==
  /\ agentResponse = Null
  /\ normalized = Null
  /\ messageHistory = <<>>
  /\ phase = "idle"
  /\ delivered = 0
  /\ collected = <<>>
  /\ handlerCalls = <<>>
  /\ streamingContent = <<>>
  /\ RequestIdle
  /\ TransportIdle(DefaultAttempts)

Init ==
  /\ mounted = TRUE
  /\ path \in Pages
  /\ currentPathRef = path
  /\ components = <<>>
  /\ componentsRef = <<>>
  /\ highlightedSelectors = {}
  /\ timeouts = {}
  /\ activeWalkthrough = Null
  /\ activeWalkthroughRef = Null
  /\ storage = Null
  /\ storageFault = "none"
  /\ ScannerIdle
  /\ GraphIdle
  /\ timers = EmptyBag
  /\ now = 0
  /\ fired = NoneFired
  /\ stopped = FALSE
  /\ timeoutHandles = [s \in Selectors |-> 0]
  /\ pendingTimeouts = {}
  /\ nextHandle = 1
  /\ superseded = {}
  /\ resolution = Null
  /\ ClientIdle

\* ------------------------------------------------------------------------
\* Highlight controller
\* ------------------------------------------------------------------------

\* highlight(selector, duration): the selector is added, the selector's old
\* timer is cleared and a new one is set when a positive duration is given
HighlightSet(hs, selector) == hs \cup {selector}
HighlightTimeouts(ts, selector, duration) ==
  IF duration > 0 THEN ts \cup {selector} ELSE ts \ {selector}

\* highlightComponent(query, duration): the selector is
\* [data-highlight-id="<id>"], identified here with the id
highlightComponentOk(query) == findComponent(query) # NoComponent
highlightComponentSet(hs, query) ==
  IF highlightComponentOk(query)
  THEN HighlightSet(hs, findComponent(query).id) ELSE hs
highlightComponentTimeouts(ts, query, duration) ==
  IF highlightComponentOk(query)
  THEN HighlightTimeouts(ts, findComponent(query).id, duration) ELSE ts

\* ------------------------------------------------------------------------
\* Walkthrough engine
\* ------------------------------------------------------------------------

\* What the three settle callbacks (start, resume, arrival) arm when they
\* run: the advance timer for a timed step that was found.  A step that is
\* not found is only logged.
SettleFollowUp(t) ==
  IF highlightComponentOk(t.step.query)
       /\ ~WaitForClick(t.step) /\ HighlightDuration(t.step) > 0
  THEN SetToBag({AdvanceTimer(HighlightDuration(t.step), t.wid, t.idx)})
  ELSE EmptyBag

\* What progressWalkthrough arms after it has evaluated the next step on the
\* current page: the grace timer when the step is not found, the duration
\* timer for a timed step
ProgressFollowUp(wt, nextIndex) ==
  LET nextStep == StepAt(wt, nextIndex)
  IN  IF ~highlightComponentOk(nextStep.query)
      THEN SetToBag({AdvanceTimer(GraceDelay, wt.id, nextIndex)})
      ELSE IF ~WaitForClick(nextStep) /\ HighlightDuration(nextStep) > 0
      THEN SetToBag({AdvanceTimer(HighlightDuration(nextStep), wt.id, nextIndex)})
      ELSE EmptyBag

\* saveWalkthroughToStorage(walkthrough): a setItem that throws is caught and
\* logged, and the slot keeps what it held
saveWalkthroughToStorage(walkthrough) ==
  IF storageFault = "none" THEN SavedBlob(walkthrough) ELSE storage

\* loadWalkthroughFromStorage(): a getItem that throws is caught and null is
\* returned
loadWalkthroughFromStorage ==
  IF storageFault = "denied" THEN Null ELSE storage

\* localStorage.removeItem(WALKTHROUGH_STORAGE_KEY) throws; the two calls of
\* it are outside any try block
removeItemThrows == storageFault = "denied"

\* progressWalkthrough, run with the timers left in rest.  When removeItem
\* throws in the completion branch, clearAll() has run and neither
\* onComplete nor setActiveWalkthrough(null) is reached.
progressWalkthrough(rest) ==
  LET wt == activeWalkthroughRef
  IN  IF wt = Null
      THEN /\ UNCHANGED <<highlightedSelectors, timeouts, activeWalkthrough, storage>>
           /\ timers' = rest
           /\ fired' = NoneFired
      ELSE LET nextIndex == NextIndex(wt)
           IN  IF nextIndex >= Len(wt.steps)
               THEN /\ highlightedSelectors' = {}
                    /\ timeouts' = {}
                    /\ timers' = rest
                    /\ IF removeItemThrows
                       THEN /\ UNCHANGED <<storage, activeWalkthrough>>
                            /\ fired' = NoneFired
                       ELSE /\ storage' = Null
                            /\ activeWalkthrough' = Null
                            /\ fired' = Fired(Calls(wt.onComplete), 0)
               ELSE LET nextStep == StepAt(wt, nextIndex)
                        updatedWalkthrough == [wt EXCEPT !.currentStepIndex = nextIndex]
                    IN  /\ activeWalkthrough' = updatedWalkthrough
                        /\ storage' = saveWalkthroughToStorage(updatedWalkthrough)
                        /\ IF TargetPage(nextStep) # currentPathRef
                           THEN /\ highlightedSelectors' = {}
                                /\ timeouts' = {}
                                /\ timers' = rest
                                /\ fired' = NoneFired
                           ELSE /\ highlightedSelectors' =
                                     highlightComponentSet({}, nextStep.query)
                                /\ timeouts' =
                                     highlightComponentTimeouts({}, nextStep.query,
                                                                HighlightDuration(nextStep))
                                /\ timers' = rest (+) ProgressFollowUp(wt, nextIndex)
                                /\ fired' = Fired(0, Calls(wt.onStepChange))

\* the effects that copy the rendered state into the refs
CommitEffects ==
  /\ mounted
  /\ activeWalkthroughRef # activeWalkthrough \/ componentsRef # components
  /\ activeWalkthroughRef' = activeWalkthrough
  /\ componentsRef' = components
  /\ fired' = NoneFired
  /\ UNCHANGED <<mounted, path, currentPathRef, components, highlightedSelectors,
                 timeouts, activeWalkthrough, storage, timers, now, stopped>>
  /\ UNCHANGED aux

registerComponent(component) ==
  /\ mounted
  /\ LET existing == MapGet(components, component.id)
     IN  components' =
           IF existing # NoComponent
                /\ existing.element = component.element
                /\ existing.name = component.name
                /\ existing.keywords = component.keywords
           THEN components
           ELSE MapSet(components, component)
  /\ fired' = NoneFired
  /\ UNCHANGED <<mounted, path, currentPathRef, componentsRef, highlightedSelectors,
                 timeouts, activeWalkthrough, activeWalkthroughRef, storage,
                 timers, now, stopped>>
  /\ UNCHANGED aux

unregisterComponent(id) ==
  /\ mounted
  /\ components' = MapDelete(components, id)
  /\ fired' = NoneFired
  /\ UNCHANGED <<mounted, path, currentPathRef, componentsRef, highlightedSelectors,
                 timeouts, activeWalkthrough, activeWalkthroughRef, storage,
                 timers, now, stopped>>
  /\ UNCHANGED aux

\* (variant of ClickAdvances that does not look at waitForClick)
ClickAdvancesIgnoringWait(componentId) ==
  /\ activeWalkthroughRef # Null
  /\ activeWalkthroughRef.steps # <<>>
  /\ LET currentStep == StepAt(activeWalkthroughRef,
                               activeWalkthroughRef.currentStepIndex)
     IN  /\ findComponent(currentStep.query) # NoComponent
         /\ findComponent(currentStep.query).id = componentId

\* the click reaches progressWalkthrough
ClickAdvances(componentId) ==
  /\ activeWalkthroughRef # Null
  /\ activeWalkthroughRef.steps # <<>>
  /\ LET currentStep == StepAt(activeWalkthroughRef,
                               activeWalkthroughRef.currentStepIndex)
     IN  /\ findComponent(currentStep.query) # NoComponent
         /\ findComponent(currentStep.query).id = componentId
         /\ WaitForClick(currentStep)

\* notifyComponentClick; with an empty step list the read of
\* currentStep.query throws and nothing changes
notifyComponentClick(componentId) ==
  /\ mounted
  /\ BagCardinality(timers) < MaxTimers
  /\ IF ClickAdvances(componentId)
     THEN progressWalkthrough(timers)
     ELSE /\ fired' = NoneFired
          /\ UNCHANGED <<highlightedSelectors, timeouts, activeWalkthrough,
                         storage, timers>>
  /\ UNCHANGED <<mounted, path, currentPathRef, components, componentsRef,
                 activeWalkthroughRef, now, stopped>>
  /\ UNCHANGED aux

\* startWalkthrough(steps, callbacks); t is the reading of Date.now(), which
\* becomes the id (the prefix "walkthrough-" is left out).  With
\* an empty step list the read of firstStep.page throws after the walkthrough
\* was set and saved.
startWalkthrough(steps, callbacks, t) ==
  /\ mounted
  /\ BagCardinality(timers) < MaxTimers
  /\ t = now + 1 /\ t <= MaxClock
  /\ now' = t
  /\ LET walkthrough == NewWalkthrough(t, steps, callbacks)
         onPage == steps # <<>> /\ TargetPage(steps[1]) = currentPathRef
     IN  /\ highlightedSelectors' =
              IF activeWalkthroughRef # Null THEN {} ELSE highlightedSelectors
         /\ timeouts' = IF activeWalkthroughRef # Null THEN {} ELSE timeouts
         /\ activeWalkthrough' = walkthrough
         /\ storage' = saveWalkthroughToStorage(walkthrough)
         /\ timers' = IF onPage
                      THEN Schedule(timers, SettleTimer(steps[1], StartSettleDelay, t, 0))
                      ELSE timers
         /\ fired' = Fired(0, IF onPage THEN Calls(callbacks) ELSE 0)
  /\ stopped' = FALSE
  /\ UNCHANGED <<mounted, path, currentPathRef, components, componentsRef,
                 activeWalkthroughRef>>
  /\ UNCHANGED aux

\* the id check of stopWalkthrough lets the call through;
\* walkthroughId = 0 stands for no argument
StopApplies(walkthroughId) ==
  ~(walkthroughId # 0
    /\ (activeWalkthroughRef = Null \/ activeWalkthroughRef.id # walkthroughId))

\* stopWalkthrough(walkthroughId); removeItem is its first effect, so when it
\* throws neither clearAll() nor setActiveWalkthrough(null) is reached
stopWalkthrough(walkthroughId) ==
  /\ mounted
  /\ IF StopApplies(walkthroughId) /\ ~removeItemThrows
     THEN /\ storage' = Null
          /\ highlightedSelectors' = {}
          /\ timeouts' = {}
          /\ activeWalkthrough' = Null
          /\ stopped' = (stopped \/ activeWalkthrough # Null)
     ELSE UNCHANGED <<highlightedSelectors, timeouts, activeWalkthrough, storage,
                      stopped>>
  /\ fired' = NoneFired
  /\ UNCHANGED <<mounted, path, currentPathRef, components, componentsRef,
                 activeWalkthroughRef, timers, now>>
  /\ UNCHANGED aux

\* a settle callback (of startWalkthrough, of the resume effect or of
\* handleLocationChange) runs
SettleFire(t) ==
  /\ t \in BagToSet(timers)
  /\ t.kind = "settle"
  /\ highlightedSelectors' = highlightComponentSet(highlightedSelectors, t.step.query)
  /\ timeouts' = highlightComponentTimeouts(timeouts, t.step.query,
                                            HighlightDuration(t.step))
  /\ timers' = Cancel(timers, t) (+) SettleFollowUp(t)
  /\ fired' = NoneFired
  /\ UNCHANGED <<mounted, path, currentPathRef, components, componentsRef,
                 activeWalkthrough, activeWalkthroughRef, storage, now, stopped>>
  /\ UNCHANGED aux

\* an advance callback (duration or grace timer) runs:
\* progressWalkthroughRef.current?.()
AdvanceFire(t) ==
  /\ t \in BagToSet(timers)
  /\ t.kind = "advance"
  /\ progressWalkthrough(Cancel(timers, t))
  /\ UNCHANGED <<mounted, path, currentPathRef, components, componentsRef,
                 activeWalkthroughRef, now, stopped>>
  /\ UNCHANGED aux

\* the auto-remove timer of a selector runs: unhighlight(selector)
ExpireFire(selector) ==
  /\ selector \in timeouts
  /\ highlightedSelectors' = highlightedSelectors \ {selector}
  /\ timeouts' = timeouts \ {selector}
  /\ fired' = NoneFired
  /\ UNCHANGED <<mounted, path, currentPathRef, components, componentsRef,
                 activeWalkthrough, activeWalkthroughRef, storage, timers, now,
                 stopped>>
  /\ UNCHANGED aux

\* the host router (or the user) changes the location
Navigate(p) ==
  /\ mounted
  /\ p # path
  /\ path' = p
  /\ fired' = NoneFired
  /\ UNCHANGED <<mounted, currentPathRef, components, componentsRef,
                 highlightedSelectors, timeouts, activeWalkthrough,
                 activeWalkthroughRef, storage, timers, now, stopped>>
  /\ UNCHANGED aux

\* (variant of Arrived for which every path change is an arrival)
ArrivedAnywhere(wt, newPath) ==
  /\ wt # Null
  /\ wt.steps # <<>>

\* the watcher finds that the walkthrough's current step is on the new path
Arrived(wt, newPath) ==
  /\ wt # Null
  /\ wt.steps # <<>>
  /\ newPath = TargetPage(StepAt(wt, wt.currentStepIndex))

\* handleLocationChange (interval tick or popstate) sees a new path; with an
\* empty step list the read of currentStep.page throws after the path was
\* remembered
handleLocationChange ==
  /\ mounted
  /\ BagCardinality(timers) < MaxTimers
  /\ path # currentPathRef
  /\ currentPathRef' = path
  /\ LET wt == activeWalkthroughRef
     IN  IF Arrived(wt, path)
         THEN /\ highlightedSelectors' = {}
              /\ timeouts' = {}
              /\ timers' = Schedule(timers,
                             SettleTimer(StepAt(wt, wt.currentStepIndex),
                                         NavSettleDelay, wt.id, wt.currentStepIndex))
              /\ fired' = Fired(0, Calls(wt.onStepChange))
         ELSE /\ UNCHANGED <<highlightedSelectors, timeouts, timers>>
              /\ fired' = NoneFired
  /\ UNCHANGED <<mounted, path, components, componentsRef, activeWalkthrough,
                 activeWalkthroughRef, storage, now, stopped>>
  /\ UNCHANGED aux

\* the mount effect finds a saved walkthrough whose current step is on page p
Resumable(saved, p) ==
  /\ saved # Null
  /\ saved.steps # <<>>
  /\ TargetPage(StepAt(saved, saved.currentStepIndex)) = p

\* The page is (re)loaded at path p and the provider mounts: everything in
\* memory starts afresh, the storage slot survives, and the mount effect
\* tries to resume.  With an empty saved step list the read of
\* currentStep.page throws inside the effect and the tree is unmounted.
Bootstrap(p) ==
  /\ p \in Pages
  /\ path' = p
  /\ currentPathRef' = p
  /\ components' = <<>>
  /\ componentsRef' = <<>>
  /\ highlightedSelectors' = {}
  /\ timeouts' = {}
  /\ activeWalkthroughRef' = Null
  /\ LET saved == loadWalkthroughFromStorage
     IN  /\ mounted' = ~(saved # Null /\ saved.steps = <<>>)
         /\ activeWalkthrough' =
              IF Resumable(saved, p) THEN ResumedWalkthrough(saved) ELSE Null
         /\ timers' =
              IF Resumable(saved, p)
              THEN SetToBag({SettleTimer(StepAt(saved, saved.currentStepIndex),
                                         NavSettleDelay, saved.id,
                                         saved.currentStepIndex)})
              ELSE EmptyBag
  /\ fired' = NoneFired
  /\ stopped' = FALSE
  /\ UNCHANGED <<storage, now>>
  /\ UNCHANGED aux

Next ==
  \/ \E id \in 0..MaxClock : stopWalkthrough(id)
  \/ CommitEffects
  \/ \E c \in Candidates : registerComponent(c)
  \/ \E id \in ComponentIds : unregisterComponent(id)
  \/ \E id \in ClickIds : notifyComponentClick(id)
  \/ \E steps \in StepLists, callbacks \in CallbackChoices, t \in 1..MaxClock :
       startWalkthrough(steps, callbacks, t)
  \/ \E t \in BagToSet(timers) : SettleFire(t)
  \/ \E t \in BagToSet(timers) : AdvanceFire(t)
  \/ \E selector \in timeouts : ExpireFire(selector)
  \/ \E p \in Pages : Navigate(p)
  \/ handleLocationChange
  \/ \E p \in Pages : Bootstrap(p)

Spec == Init /\ [][Next]_vars

TypeOK ==
  /\ mounted \in BOOLEAN
  /\ path \in Pages /\ currentPathRef \in Pages
  /\ highlightedSelectors \subseteq ComponentIds
  /\ timeouts \subseteq ComponentIds
  /\ BagCardinality(timers) <= MaxTimers
  /\ now \in 0..MaxClock
  /\ stopped \in BOOLEAN

\* ------------------------------------------------------------------------
\* Properties
\* ------------------------------------------------------------------------

WalkthroughIds == 1..MaxClock

\* the current step of a walkthrough (or of a saved blob)
CurrentStep(wt) == StepAt(wt, wt.currentStepIndex)

\* nothing is pending inside the engine: the refs are up to date, the
\* watcher has seen the current path and no timer is armed
Quiescent ==
  /\ activeWalkthroughRef = activeWalkthrough
  /\ componentsRef = components
  /\ currentPathRef = path
  /\ timers = EmptyBag
  /\ timeouts = {}

\* a walkthrough is active on its current step's target page and the step's
\* query resolves to no registered component
UnresolvedOnPage ==
  /\ activeWalkthrough # Null
  /\ activeWalkthrough.currentStepIndex < Len(activeWalkthrough.steps)
  /\ path = TargetPage(CurrentStep(activeWalkthrough))
  /\ findComponentIn(components, CurrentStep(activeWalkthrough).query) = NoComponent

\* C1: never stuck - whenever a walkthrough is active on its current step's
\* target page and that step's query resolves to no registered component,
\* the engine is going to advance past the step by itself: such a state
\* always has something pending (a timer, an effect, a watcher tick).
C1_NeverStuck == ~(UnresolvedOnPage /\ Quiescent)

\* the advance timer t was set for the step the active walkthrough is at
ForCurrentStep(t) ==
  /\ activeWalkthrough # Null
  /\ activeWalkthrough.id = t.wid
  /\ activeWalkthrough.currentStepIndex = t.idx

\* C2: double-advance guard - an advance timer that was set for step i of
\* walkthrough W changes the walkthrough state only while W is still the
\* active walkthrough at step i; a timer left over from an earlier step or
\* an earlier walkthrough (firing when the refs are up to date) changes
\* neither currentStepIndex nor the saved state.
C2_StaleTriggerInert ==
  [][\A t \in BagToSet(timers) :
       ( /\ AdvanceFire(t)
         /\ activeWalkthroughRef = activeWalkthrough
         /\ ~ForCurrentStep(t) )
         => UNCHANGED <<activeWalkthrough, storage>>]_vars

\* C3: starting a walkthrough while another one is active makes the new one
\* the active and the persisted walkthrough at step 0 with the old
\* highlights cleared, and from then on a settle timer of the old
\* walkthrough applies no highlight.
C3_StartTearsDown ==
  [][/\ \A steps \in StepLists, callbacks \in CallbackChoices, t \in WalkthroughIds :
          ( /\ startWalkthrough(steps, callbacks, t)
            /\ activeWalkthrough # Null
            /\ activeWalkthroughRef = activeWalkthrough )
            => /\ highlightedSelectors' = {}
               /\ activeWalkthrough' # Null
               /\ activeWalkthrough'.id = t
               /\ activeWalkthrough'.steps = steps
               /\ activeWalkthrough'.currentStepIndex = 0
               /\ storage' = [id |-> t, steps |-> steps, currentStepIndex |-> 0]
     /\ \A t \in BagToSet(timers) :
          ( /\ SettleFire(t)
            /\ activeWalkthrough # Null
            /\ activeWalkthrough.id # t.wid )
            => highlightedSelectors' = highlightedSelectors]_vars

\* C4: stopping a walkthrough cancels its pending timers - once
\* stopWalkthrough has stopped the walkthrough (and the refs show it), and
\* until the next startWalkthrough, the highlighted set stays empty, no
\* walkthrough is active, the persisted slot is empty and no callback fires.
C4_StopCancelsTimers ==
  (stopped /\ activeWalkthroughRef = Null)
    => /\ highlightedSelectors = {}
       /\ activeWalkthrough = Null
       /\ storage = Null
       /\ fired = NoneFired

\* C5: deferred resume - at bootstrap a saved walkthrough whose current step
\* is on another page is left in storage with the engine idle, and when the
\* page watcher then sees the path of that step the walkthrough becomes
\* active at the saved index.
C5_DeferredResume ==
  [][/\ \A p \in Pages :
          ( /\ Bootstrap(p)
            /\ storage # Null
            /\ storage.steps # <<>>
            /\ TargetPage(CurrentStep(storage)) # p )
            => (storage' = storage /\ activeWalkthrough' = Null)
     /\ ( /\ handleLocationChange
          /\ activeWalkthrough = Null
          /\ activeWalkthroughRef = Null
          /\ storage # Null
          /\ storage.steps # <<>>
          /\ TargetPage(CurrentStep(storage)) = path )
          => /\ activeWalkthrough' # Null
             /\ activeWalkthrough'.id = storage.id
             /\ activeWalkthrough'.currentStepIndex = storage.currentStepIndex]_vars

\* C6: persist -> reload round trip - when the page is reloaded on the
\* target page of the saved current step, the resumed walkthrough has the
\* saved id, index and step list (those of the walkthrough that was active
\* before the reload) and the saved blob is not modified.
C6_RoundTrip ==
  [][\A p \in Pages :
       ( /\ Bootstrap(p)
         /\ storage # Null
         /\ storage.steps # <<>>
         /\ TargetPage(CurrentStep(storage)) = p )
         => /\ activeWalkthrough' # Null
            /\ activeWalkthrough'.id = storage.id
            /\ activeWalkthrough'.currentStepIndex = storage.currentStepIndex
            /\ activeWalkthrough'.steps = storage.steps
            /\ storage' = storage
            /\ activeWalkthrough # Null
                 => /\ activeWalkthrough'.id = activeWalkthrough.id
                    /\ activeWalkthrough'.currentStepIndex =
                         activeWalkthrough.currentStepIndex
                    /\ activeWalkthrough'.steps = activeWalkthrough.steps]_vars

\* a walkthrough was just resumed from storage at its second step
C6_Witness ==
  /\ activeWalkthrough # Null
  /\ ~activeWalkthrough.onComplete
  /\ activeWalkthrough.currentStepIndex = 1
  /\ activeWalkthroughRef = Null
  /\ storage # Null
  /\ storage.currentStepIndex = 1
  /\ BagCardinality(timers) = 1

\* C7: persistence tracks the active walkthrough - whenever a walkthrough is
\* active the persisted slot holds exactly its id, steps and
\* currentStepIndex, and a step that ends the walkthrough (completion or
\* stop) leaves the slot empty.
C7_PersistenceTracks ==
  /\ [](activeWalkthrough # Null
          => /\ storage # Null
             /\ storage.id = activeWalkthrough.id
             /\ storage.steps = activeWalkthrough.steps
             /\ storage.currentStepIndex = activeWalkthrough.currentStepIndex)
  /\ [][( /\ activeWalkthrough # Null
          /\ activeWalkthrough' = Null
          /\ ~(\E p \in Pages : Bootstrap(p)) )
          => storage' = Null]_vars

\* a walkthrough is active at its second step and saved at that step
C7_Witness ==
  /\ activeWalkthrough # Null
  /\ activeWalkthrough.currentStepIndex = 1
  /\ storage # Null
  /\ storage.currentStepIndex = 1
  /\ activeWalkthrough.onComplete

\* C8: step-index invariant - every walkthrough that is active or persisted
\* has 0 <= currentStepIndex <= steps.length, and one whose index equals
\* steps.length (completed, or started with no steps) is neither active nor
\* persisted: the index of an active or persisted walkthrough is below
\* steps.length.
C8_StepIndexInvariant ==
  /\ activeWalkthrough # Null
       => /\ 0 <= activeWalkthrough.currentStepIndex
          /\ activeWalkthrough.currentStepIndex < Len(activeWalkthrough.steps)
  /\ storage # Null
       => /\ 0 <= storage.currentStepIndex
          /\ storage.currentStepIndex < Len(storage.steps)

\* the outcome of an advance of the walkthrough wt: gone after its last
\* step, else at the next index
AdvancedFrom(wt) ==
  IF wt.currentStepIndex + 1 >= Len(wt.steps)
  THEN activeWalkthrough' = Null
  ELSE /\ activeWalkthrough' # Null
       /\ activeWalkthrough'.id = wt.id
       /\ activeWalkthrough'.currentStepIndex = wt.currentStepIndex + 1

ResolvesToClicked(c) ==
  /\ activeWalkthroughRef # Null
  /\ activeWalkthroughRef.steps # <<>>
  /\ LET step == CurrentStep(activeWalkthroughRef)
         found == findComponentIn(componentsRef, step.query)
     IN  /\ found # NoComponent
         /\ found.id = c
         /\ step.waitForClick # "false"

ProgressRuns ==
  /\ activeWalkthroughRef # Null
  /\ \/ \E t \in BagToSet(timers) : AdvanceFire(t)
     \/ \E c \in ClickIds : notifyComponentClick(c) /\ ResolvesToClicked(c)

NewSettleTimers ==
  {t \in BagToSet(timers') :
     t.kind = "settle" /\ CopiesIn(t, timers') > CopiesIn(t, timers)}
GoneSettleTimers ==
  {t \in BagToSet(timers) :
     t.kind = "settle" /\ CopiesIn(t, timers') < CopiesIn(t, timers)}

\* the handler lands on step number index of steps, whose target page is not
\* the path the watcher has last observed
LandsOffPage(steps, index) ==
  /\ index < Len(steps)
  /\ TargetPage(steps[index + 1]) # currentPathRef

\* The steps of the handlers, told apart by what only they change:
\* startWalkthrough alone reads the clock
StartStep == now' # now
\* a page load alone empties a ref or the registry behind the refs
LoadStep ==
  \/ activeWalkthroughRef # Null /\ activeWalkthroughRef' = Null
  \/ componentsRef # <<>> /\ componentsRef' = <<>>
\* progressWalkthrough alone moves the walkthrough of the ref to its next step
ProgressStep ==
  /\ ~StartStep /\ ~LoadStep
  /\ activeWalkthroughRef # Null
  /\ activeWalkthrough' # Null
  /\ activeWalkthrough' # activeWalkthrough
\* the watcher alone updates currentPathRef without a page load
WatcherStep == currentPathRef' # currentPathRef /\ path' = path /\ ~LoadStep

TimedStepHighlighted ==
  /\ activeWalkthrough # Null
  /\ activeWalkthroughRef = activeWalkthrough
  /\ componentsRef = components
  /\ activeWalkthrough.currentStepIndex < Len(activeWalkthrough.steps)
  /\ LET step == CurrentStep(activeWalkthrough)
         found == findComponentIn(componentsRef, step.query)
     IN  /\ step.waitForClick = "false"
         /\ step.duration > 0
         /\ TargetPage(step) = currentPathRef
         /\ found # NoComponent
         /\ found.id \in highlightedSelectors
         /\ [kind |-> "advance", step |-> <<>>, delay |-> step.duration,
             wid |-> activeWalkthrough.id,
             idx |-> activeWalkthrough.currentStepIndex] \in BagToSet(timers)

\* C12: auto-advance - a step with waitForClick = false, a positive duration
\* and a resolvable query, once highlighted on its target page, is left
\* through the timer that was armed for that very step with the step's
\* duration as delay (so not before the duration has elapsed), and a settle
\* callback that highlights such a step arms that timer.
C12_AutoAdvance ==
  [][/\ \A t \in BagToSet(timers) :
          ( /\ TimedStepHighlighted
            /\ AdvanceFire(t)
            /\ activeWalkthrough' # activeWalkthrough )
            => /\ t.wid = activeWalkthrough.id
               /\ t.idx = activeWalkthrough.currentStepIndex
               /\ t.delay = CurrentStep(activeWalkthrough).duration
     /\ \A t \in BagToSet(timers) :
          ( /\ SettleFire(t)
            /\ findComponentIn(componentsRef, t.step.query) # NoComponent
            /\ t.step.waitForClick = "false"
            /\ t.step.duration > 0 )
            => [kind |-> "advance", step |-> <<>>, delay |-> t.step.duration,
                wid |-> t.wid, idx |-> t.idx] \in BagToSet(timers')
    ]_vars

\* the ref holds a walkthrough that carries no callbacks
RefWithoutCallbacks ==
  /\ activeWalkthroughRef # Null
  /\ ~activeWalkthroughRef.onComplete
  /\ ~activeWalkthroughRef.onStepChange

\* C13: a walkthrough reconstructed from storage carries no callbacks; no
\* handler that runs on it (an advance, an arrival, its completion) invokes
\* onStepChange or onComplete, and its completion still deletes the
\* persisted state and leaves no active walkthrough.
C13_ResumedSilently ==
  [][/\ \A p \in Pages :
          (Bootstrap(p) /\ activeWalkthrough' # Null)
            => /\ ~activeWalkthrough'.onComplete
               /\ ~activeWalkthrough'.onStepChange
     /\ (RefWithoutCallbacks /\ ~StartStep) => fired' = NoneFired
     /\ ( /\ RefWithoutCallbacks
          /\ activeWalkthroughRef.currentStepIndex + 1 >= Len(activeWalkthroughRef.steps)
          /\ ProgressRuns )
          => /\ storage' = Null
             /\ activeWalkthrough' = Null
             /\ highlightedSelectors' = {}
    ]_vars

\* a walkthrough that was reconstructed from storage (the one without
\* callbacks in the ref) has completed: nothing is active or saved, nobody
\* stopped it and no callback ran
C13_Witness ==
  /\ RefWithoutCallbacks
  /\ activeWalkthrough = Null
  /\ storage = Null
  /\ ~stopped
  /\ fired = NoneFired

\* ------------------------------------------------------------------------
\* The highlight controller: highlight, unhighlight, clearAll and their
\* auto-remove timers, one timer at a time
\* ------------------------------------------------------------------------

\* what the controller does not touch
engineRest == <<path, currentPathRef, components, componentsRef,
                timeouts, activeWalkthrough, activeWalkthroughRef, storage,
                timers, now, fired, stopped, resolution, clientVars,
                storageFault, scannerVars, graphVars>>
engineVars == <<mounted, engineRest>>

\* The characters of the selector strings, and the part of the selector
\* grammar they reach: document.querySelectorAll throws a SyntaxError for
\* an empty string, for a character that belongs to no selector, for '#' or
\* '.' without a name behind it, for a type name that begins with a digit,
\* and for an attribute block that is empty or not closed.
NameChars ==
  {UpperChars[i] : i \in 1..Len(UpperChars)}
    \cup {LowerChars[i] : i \in 1..Len(LowerChars)} \cup {"-", "_"}
SelectorChars ==
  NameChars \cup DigitChars \cup {"#", ".", "[", "]", "=", "\"", " "}

\* position i of s lies inside an attribute block that was opened before it
InsideBlock(s, i) ==
  \E j \in 1..(i - 1) :
    s[j] = "[" /\ \A k \in (j + 1)..(i - 1) : s[k] # "]"

IsValidSelector(s) ==
  /\ s # <<>>
  /\ \A i \in 1..Len(s) : s[i] \in SelectorChars
  /\ s[1] \notin DigitChars
  /\ \A i \in 1..Len(s) :
       /\ (s[i] \in {"#", "."} /\ ~InsideBlock(s, i))
            => (i < Len(s) /\ s[i + 1] \in NameChars)
       /\ s[i] = "["
            => /\ ~InsideBlock(s, i)
               /\ i < Len(s) /\ s[i + 1] \in NameChars
               /\ \E k \in (i + 1)..Len(s) : s[k] = "]"
       /\ s[i] = "]" => InsideBlock(s, i)
       /\ s[i] \in {"=", "\""} => InsideBlock(s, i)

\* (variant of ClearTimeout that leaves the timer running)
ClearTimeoutNoop(pending, handle) == pending

\* clearTimeout(handle); a handle that is not pending is ignored
ClearTimeout(pending, handle) == {t \in pending : t.handle # handle}

\* the timer of the handle is still to run
IsPending(handle) == \E t \in pendingTimeouts : t.handle = handle

\* highlight(selector, duration).  The state update is queued first; for a
\* string that is no selector querySelectorAll then throws, and the
\* statements on the timers are not reached.
highlight(selector, duration) ==
  /\ mounted
  /\ duration > 0 => nextHandle <= MaxHandles
  /\ highlightedSelectors' = HighlightSet(highlightedSelectors, selector)
  /\ IF ~IsValidSelector(selector)
     THEN UNCHANGED <<timeoutHandles, pendingTimeouts, nextHandle, superseded>>
     ELSE
     LET existingTimeout == timeoutHandles[selector]
         cleared == IF existingTimeout # 0
                    THEN ClearTimeout(pendingTimeouts, existingTimeout)
                    ELSE pendingTimeouts
     IN  /\ superseded' = IF existingTimeout # 0 /\ IsPending(existingTimeout)
                          THEN superseded \cup {existingTimeout}
                          ELSE superseded
         /\ IF duration > 0
            THEN /\ pendingTimeouts' =
                      cleared \cup {[handle |-> nextHandle, selector |-> selector]}
                 /\ timeoutHandles' = [timeoutHandles EXCEPT ![selector] = nextHandle]
                 /\ nextHandle' = nextHandle + 1
            ELSE /\ pendingTimeouts' = cleared
                 /\ UNCHANGED <<timeoutHandles, nextHandle>>
  /\ UNCHANGED engineVars

\* the effect of unhighlight(selector) on the timers
UnhighlightPending(pending, selector) ==
  IF timeoutHandles[selector] # 0
  THEN ClearTimeout(pending, timeoutHandles[selector])
  ELSE pending

\* unhighlight(selector); for a string that is no selector querySelectorAll
\* throws before the timer is looked up, and such a string has no timer
unhighlight(selector) ==
  /\ mounted
  /\ highlightedSelectors' = highlightedSelectors \ {selector}
  /\ pendingTimeouts' = UnhighlightPending(pendingTimeouts, selector)
  /\ timeoutHandles' = [timeoutHandles EXCEPT ![selector] = 0]
  /\ UNCHANGED <<nextHandle, superseded>>
  /\ UNCHANGED engineVars

\* clearAll().  The timers are cleared at once; the state updater runs
\* querySelectorAll on every highlighted string when React renders next,
\* and if one of them is no selector it throws there: the set is not
\* replaced and the provider's tree is unmounted.
clearAll ==
  /\ mounted
  /\ IF \A s \in highlightedSelectors : IsValidSelector(s)
     THEN /\ highlightedSelectors' = {}
          /\ UNCHANGED mounted
     ELSE /\ UNCHANGED highlightedSelectors
          /\ mounted' = FALSE
  /\ pendingTimeouts' =
       {t \in pendingTimeouts :
          \A s \in DOMAIN timeoutHandles :
            timeoutHandles[s] = 0
              \/ t \in ClearTimeout(pendingTimeouts, timeoutHandles[s])}
  /\ timeoutHandles' = [s \in DOMAIN timeoutHandles |-> 0]
  /\ UNCHANGED <<nextHandle, superseded>>
  /\ UNCHANGED engineRest

\* an auto-remove timer runs: unhighlight(selector)
TimeoutFire(t) ==
  /\ t \in pendingTimeouts
  /\ highlightedSelectors' = highlightedSelectors \ {t.selector}
  /\ pendingTimeouts' = UnhighlightPending(pendingTimeouts \ {t}, t.selector)
  /\ timeoutHandles' = [timeoutHandles EXCEPT ![t.selector] = 0]
  /\ UNCHANGED <<nextHandle, superseded>>
  /\ UNCHANGED engineVars

HighlightNext ==
  \/ \E t \in pendingTimeouts : TimeoutFire(t)
  \/ \E s \in Selectors, d \in Durations : highlight(s, d)
  \/ \E s \in Selectors : unhighlight(s)
  \/ clearAll

HighlightSpec == Init /\ [][HighlightNext]_<<vars, aux>>

\* the pending auto-remove timers of a selector
TimersOf(pending, selector) == {t \in pending : t.selector = selector}

\* C14: highlight timers are last-write-wins per selector - a selector owns
\* at most one pending auto-remove timer, which is the one of the latest
\* highlight call; a timer that a later highlight call on its selector has
\* superseded never runs; after highlight(s, d) the timers of s are exactly
\* the new timer when d is positive and none when d is omitted; and s stops
\* being highlighted only through unhighlight(s), clearAll or the timer that
\* the latest call set.
C14_LastWriteWins ==
  /\ [](\A s \in Selectors : Cardinality(TimersOf(pendingTimeouts, s)) <= 1)
  /\ [](\A t \in pendingTimeouts :
          t.handle \notin superseded /\ timeoutHandles[t.selector] = t.handle)
  /\ [][/\ \A s \in Selectors, d \in Durations :
             highlight(s, d)
               => /\ s \in highlightedSelectors'
                  /\ TimersOf(pendingTimeouts', s) =
                       (IF d > 0
                        THEN {[handle |-> nextHandle, selector |-> s]}
                        ELSE {})
        /\ \A s \in Selectors :
             (s \in highlightedSelectors /\ s \notin highlightedSelectors')
               => \/ unhighlight(s)
                  \/ clearAll
                  \/ \E t \in pendingTimeouts :
                       /\ t.selector = s
                       /\ t.handle = timeoutHandles[s]
                       /\ TimeoutFire(t)
     ]_<<vars, aux>>

\* a second highlight call on a selector has replaced the first call's
\* pending timer by its own
C14_Witness ==
  \E t \in pendingTimeouts :
    /\ t.selector \in highlightedSelectors
    /\ \E h \in superseded : h < t.handle
    /\ TimersOf(pendingTimeouts, t.selector) = {t}

\* ------------------------------------------------------------------------
\* The registry next to the highlight controller
\* ------------------------------------------------------------------------

\* The descriptors that the host registers: CompA; the same with a
\* description (identical in id, name, element and keywords); the same
\* component mounted anew (another element); the same with a keyword; and
\* a component with another id
CompADescribed == [CompA EXCEPT !.description = <<"x">>]
CompARemounted == [CompA EXCEPT !.element = 2]
CompAKeyword == [CompA EXCEPT !.keywords = << <<"k">> >>]
CompB == [id |-> OtherId, name |-> <<"B">>, description |-> <<>>,
          keywords |-> <<>>, element |-> 3]
Descriptors == {CompA, CompADescribed, CompARemounted, CompAKeyword, CompB}

RegistryNext ==
  \/ \E c \in Descriptors : registerComponent(c)
  \/ \E id \in Selectors : unregisterComponent(id)
  \/ \E t \in pendingTimeouts : TimeoutFire(t)
  \/ \E s \in Selectors, d \in Durations : highlight(s, d)
  \/ \E s \in Selectors : unhighlight(s)
  \/ clearAll

RegistrySpec == Init /\ [][RegistryNext]_<<vars, aux>>

\* the registry holds an entry that agrees with c in id, name, element
\* reference and keywords
HoldsSame(comps, c) ==
  \E i \in 1..Len(comps) :
    /\ comps[i].id = c.id
    /\ comps[i].name = c.name
    /\ comps[i].element = c.element
    /\ comps[i].keywords = c.keywords

\* the number of entries of the registry under an id
EntriesOf(comps, id) == Cardinality({i \in 1..Len(comps) : comps[i].id = id})

\* C15: register is idempotent - registerComponent with a descriptor whose
\* id, name, element reference and keywords are those of the registered
\* entry leaves the registry unchanged; after every registerComponent call
\* the registry holds exactly one entry for the id, which agrees with the
\* descriptor in these four fields (so that a second call is such a no-op),
\* and every other entry is untouched; and no register call changes the
\* highlighted selectors or their timers.
C15_RegisterIdempotent ==
  [][\A c \in Descriptors :
       registerComponent(c)
         => /\ HoldsSame(components, c) => components' = components
            /\ EntriesOf(components', c.id) = 1
            /\ HoldsSame(components', c)
            /\ \A id \in Selectors \ {c.id} :
                 MapGet(components', id) = MapGet(components, id)
            /\ UNCHANGED <<highlightedSelectors, timeoutHandles, pendingTimeouts>>
    ]_<<vars, aux>>

\* CompA is registered, CompB after it, and CompA's selector is highlighted
\* with its auto-remove timer pending: a state in which CompADescribed is
\* registered to no effect
C15_Witness ==
  /\ components = <<CompA, CompB>>
  /\ IdA \in highlightedSelectors
  /\ TimersOf(pendingTimeouts, IdA) # {}

\* ------------------------------------------------------------------------
\* The fuzzy resolver on registries of up to MaxRegistry descriptors
\* ------------------------------------------------------------------------

MaxRegistry == 2

\* Descriptors that meet the query "x y" at different tiers:
\* by id (tier 1), by name (2, two of them), by partial name (4), by
\* keyword (5), by words (6), by partial keyword (7), by description (8)
ById == [id |-> <<"x","-","y">>, name |-> <<"G","o">>, description |-> <<>>,
         keywords |-> <<>>, element |-> 1]
ByName == [id |-> <<"b">>, name |-> <<"X","_","Y">>, description |-> <<>>,
           keywords |-> <<>>, element |-> 2]
ByNameAgain == [id |-> <<"h">>, name |-> <<"x"," ","y">>, description |-> <<>>,
                keywords |-> <<>>, element |-> 8]
ByPartialName == [id |-> <<"c">>, name |-> <<"x"," ","y"," ","z">>,
                  description |-> <<>>, keywords |-> << <<"g","o">> >>,
                  element |-> 3]
ByKeyword == [id |-> <<"g">>, name |-> <<"v">>, description |-> <<>>,
              keywords |-> << <<"X","-","Y">> >>, element |-> 4]
ByWords == [id |-> <<"f">>, name |-> <<"y">>, description |-> <<>>,
            keywords |-> << <<"x">> >>, element |-> 5]
ByPartialKeyword == [id |-> <<"d">>, name |-> <<"q">>, description |-> <<>>,
                     keywords |-> << <<"x"," ","y","z">> >>, element |-> 6]
ByDescription == [id |-> <<"e">>, name |-> <<"w">>,
                  description |-> <<"a","x"," ","y">>,
                  keywords |-> <<>>, element |-> 7]

ResolverDescriptors ==
  {ById, ByName, ByNameAgain, ByPartialName, ByKeyword, ByWords,
   ByPartialKeyword, ByDescription}

\* the queries: three spellings of "x y", a name, a raw id and a miss
QueryXY == <<"x","_","y">>
Queries ==
  {QueryXY, <<"X"," ","Y","!">>, <<" ","x","-","-","y">>, <<"g","o">>,
   <<"d">>, <<"n","o">>}

\* the Maps of up to MaxRegistry descriptors: no id twice
Registries ==
  {comps \in UNION {[1..n -> ResolverDescriptors] : n \in 0..MaxRegistry} :
     \A i, j \in 1..Len(comps) : comps[i].id = comps[j].id => i = j}

ResolverInit ==
  /\ mounted = TRUE
  /\ path = "/"
  /\ currentPathRef = path
  /\ components \in Registries
  /\ componentsRef = components
  /\ highlightedSelectors = {}
  /\ timeouts = {}
  /\ activeWalkthrough = Null
  /\ activeWalkthroughRef = Null
  /\ storage = Null
  /\ storageFault = "none"
  /\ ScannerIdle
  /\ GraphIdle
  /\ timers = EmptyBag
  /\ now = 0
  /\ fired = NoneFired
  /\ stopped = FALSE
  /\ timeoutHandles = [s \in Selectors |-> 0]
  /\ pendingTimeouts = {}
  /\ nextHandle = 1
  /\ superseded = {}
  /\ resolution = Null
  /\ ClientIdle

\* the host calls findComponent(query)
findComponentCall(query) ==
  /\ resolution' = [query |-> query, found |-> findComponent(query)]
  /\ UNCHANGED vars
  /\ UNCHANGED <<timeoutHandles, pendingTimeouts, nextHandle, superseded,
                 clientVars, storageFault, scannerVars, graphVars>>

ResolverNext == \E query \in Queries : findComponentCall(query)

ResolverSpec == ResolverInit /\ [][ResolverNext]_<<vars, aux>>

\* the normalized query equals the descriptor's normalized id, or its
\* normalized name
ExactById(c, query) == normalizeForMatching(c.id) = normalizeForMatching(query)
ExactByName(c, query) == normalizeForMatching(c.name) = normalizeForMatching(query)

\* position of a registered descriptor
IndexOf(comps, c) == CHOOSE i \in 1..Len(comps) : comps[i] = c

\* C16 as stated: for every registered descriptor D and every query whose
\* normalized form equals the normalized D.id or the normalized D.name,
\* findComponent returns D.
C16_ExactMatchReturnsD ==
  resolution # Null
    => \A i \in 1..Len(componentsRef) :
         LET D == componentsRef[i]
         IN  (ExactById(D, resolution.query) \/ ExactByName(D, resolution.query))
               => resolution.found = D

\* C16 (amended): for a query whose normalized form equals the normalized
\* id or name of some registered descriptor, findComponent returns the
\* earliest-registered descriptor whose normalized id equals it or, when
\* there is none, the earliest-registered one whose normalized name equals
\* it - so it returns D whenever D is the only descriptor with such an
\* exact match, and never a descriptor that matches less exactly.
C16_ExactMatchWins ==
  resolution # Null
    => LET q == resolution.query
           found == resolution.found
           byId == {i \in 1..Len(componentsRef) : ExactById(componentsRef[i], q)}
           byName == {i \in 1..Len(componentsRef) : ExactByName(componentsRef[i], q)}
       IN  /\ byId # {}
             => /\ found # NoComponent
                /\ ExactById(found, q)
                /\ \A i \in byId : IndexOf(componentsRef, found) <= i
           /\ (byId = {} /\ byName # {})
             => /\ found # NoComponent
                /\ ExactByName(found, q)
                /\ \A i \in byName : IndexOf(componentsRef, found) <= i
           /\ \A i \in byId \cup byName :
                byId \cup byName = {i} => found = componentsRef[i]

\* the query "x_y" was resolved to the descriptor of that name although a
\* descriptor with a partial keyword match was registered before it
C16_Witness ==
  /\ resolution # Null
  /\ componentsRef = <<ByPartialKeyword, ByName>>
  /\ resolution.query = QueryXY
  /\ resolution.found = ByName

\* the descriptor c, taken alone, matches the query at tier k
MatchesAt(c, k, query) ==
  LET nq == normalizeForMatching(query)
      alone == <<c>>
  IN  CASE k = 1 -> Tier1(alone, nq) # NoComponent
        [] k = 2 -> Tier2(alone, nq) # NoComponent
        [] k = 3 -> Tier3(alone, query) # NoComponent
        [] k = 4 -> Tier4(alone, nq) # NoComponent
        [] k = 5 -> Tier5(alone, nq) # NoComponent
        [] k = 6 -> Tier6(alone, nq) # NoComponent
        [] k = 7 -> Tier7(alone, nq) # NoComponent
        [] k = 8 -> Tier8(alone, nq) # NoComponent

Tiers == 1..8

\* the positions of the descriptors that match at tier k
MatchesOfTier(comps, k, query) ==
  {i \in 1..Len(comps) : MatchesAt(comps[i], k, query)}

\* the smallest member of a non-empty set of numbers
Least(S) == CHOOSE n \in S : \A other \in S : n <= other

\* C17: tier ordering - findComponent returns a descriptor of the
\* lowest-numbered tier at which any registered descriptor matches, whatever
\* the registration order, and of the descriptors that match at that tier
\* the earliest-registered one; it returns none only if no descriptor
\* matches at any tier.
C17_TierOrdering ==
  resolution # Null
    => LET q == resolution.query
           matching == {k \in Tiers : MatchesOfTier(componentsRef, k, q) # {}}
       IN  IF matching = {}
           THEN resolution.found = NoComponent
           ELSE resolution.found =
                  componentsRef[Least(MatchesOfTier(componentsRef, Least(matching), q))]

\* a descriptor that matches by partial name (tier 4) was registered before
\* the one that matches by id (tier 1), and the query was resolved to the
\* latter
C17_Witness ==
  /\ resolution # Null
  /\ componentsRef = <<ByPartialName, ById>>
  /\ resolution.query = QueryXY
  /\ resolution.found = ById

\* ------------------------------------------------------------------------
\* The agent client: normalizeAssistantResponse and the direct API call
\* ------------------------------------------------------------------------

\* JSON values: null, strings (sequences of characters), arrays and objects
\* (sequences of <<key, value>> in the order of the keys); Undefined is what
\* reading a missing property gives
JNull == [t |-> "null", v |-> <<>>]
Undefined == [t |-> "undefined", v |-> <<>>]
JStr(s) == [t |-> "str", v |-> s]
JArr(items) == [t |-> "arr", v |-> items]
JObj(fields) == [t |-> "obj", v |-> fields]

\* a reference to an object or array of the heap, and what it refers to (a
\* value that is written out in place stands for itself)
Ref(r) == [t |-> "ref", v |-> r]
At(value) == IF value.t = "ref" THEN heap[value.v] ELSE value

IsNullish(value) == value.t \in {"null", "undefined"}
IsString(value) == value.t = "str"
IsArray(value) == At(value).t = "arr"
IsObject(value) == At(value).t = "obj"

\* 'key' in obj
HasKey(value, key) ==
  IsObject(value) /\ \E i \in 1..Len(At(value).v) : At(value).v[i][1] = key

\* value.key, also value?.key
Get(value, key) ==
  IF HasKey(value, key)
  THEN At(value).v[CHOOSE i \in 1..Len(At(value).v) : At(value).v[i][1] = key][2]
  ELSE Undefined

\* a ?? b ?? ...
RECURSIVE Coalesce(_)
Coalesce(values) ==
  IF values = <<>> THEN Undefined
  ELSE IF ~IsNullish(Head(values)) \/ Len(values) = 1 THEN Head(values)
  ELSE Coalesce(Tail(values))

\* the keys that stringifyContent follows, in its order
ContentKeys ==
  <<"value", "text", "content", "output_text", "outputText", "parts",
    "annotations", "message", "segments">>

\* the keys whose array stringifyContent follows after the choices
ListKeys == <<"messages", "outputs">>

RECURSIVE stringifyContent(_)
RECURSIVE JoinContent(_)
RECURSIVE JoinChoices(_)

\* value.map(item => stringifyContent(item)).join('')
JoinContent(items) ==
  IF items = <<>> THEN <<>>
  ELSE stringifyContent(Head(items)) \o JoinContent(Tail(items))

\* the choices branch of stringifyContent
JoinChoices(choices) ==
  IF choices = <<>> THEN <<>>
  ELSE stringifyContent(Coalesce(<<Get(Head(choices), "message"),
                                   Get(Head(choices), "delta"),
                                   Get(Head(choices), "content"),
                                   Get(Head(choices), "text")>>))
         \o JoinChoices(Tail(choices))

\* stringifyContent on null, strings, arrays and objects
stringifyContent(value) ==
  IF IsNullish(value) THEN <<>>
  ELSE IF IsString(value) THEN value.v
  ELSE IF IsArray(value) THEN JoinContent(value.v)
  ELSE IF \E i \in 1..Len(ContentKeys) : HasKey(value, ContentKeys[i])
  THEN LET first == CHOOSE i \in 1..Len(ContentKeys) :
                      /\ HasKey(value, ContentKeys[i])
                      /\ \A j \in 1..(i - 1) : ~HasKey(value, ContentKeys[j])
       IN  stringifyContent(Get(value, ContentKeys[first]))
  ELSE IF HasKey(value, "choices") /\ IsArray(Get(value, "choices"))
  THEN JoinChoices(Get(value, "choices").v)
  ELSE IF \E i \in 1..Len(ListKeys) :
            HasKey(value, ListKeys[i]) /\ IsArray(Get(value, ListKeys[i]))
  THEN LET first == CHOOSE i \in 1..Len(ListKeys) :
                      /\ HasKey(value, ListKeys[i]) /\ IsArray(Get(value, ListKeys[i]))
                      /\ \A j \in 1..(i - 1) :
                           ~(HasKey(value, ListKeys[j]) /\ IsArray(Get(value, ListKeys[j])))
       IN  stringifyContent(Get(value, ListKeys[first]))
  ELSE IF HasKey(value, "response") THEN stringifyContent(Get(value, "response"))
  ELSE <<>>

\* JavaScript truthiness of a JSON value
Truthy(value) == ~IsNullish(value) /\ value # JStr(<<>>)

\* resolveRole: a string, or Undefined
resolveRole(source) ==
  IF IsString(Get(source, "role")) THEN Get(source, "role")
  ELSE IF IsString(Get(source, "type")) THEN Get(source, "type")
  ELSE IF Truthy(Get(source, "author")) /\ IsString(Get(Get(source, "author"), "role"))
  THEN Get(Get(source, "author"), "role")
  ELSE IF Truthy(Get(Get(source, "data"), "role"))
            /\ IsString(Get(Get(source, "data"), "role"))
  THEN Get(Get(source, "data"), "role")
  ELSE IF Truthy(Get(Get(source, "message"), "role"))
            /\ IsString(Get(Get(source, "message"), "role"))
  THEN Get(Get(source, "message"), "role")
  ELSE Undefined

RoleAssistant == <<"a","s","s","i","s","t","a","n","t">>
RoleModel == <<"m","o","d","e","l">>
RoleMessage == <<"m","e","s","s","a","g","e">>
RoleUser == <<"u","s","e","r">>

\* the role test of normalizeAssistantResponse
AcceptsRole(candidateRole) ==
  \/ ~Truthy(candidateRole)
  \/ Includes(candidateRole.v, RoleAssistant)
  \/ candidateRole.v = RoleModel
  \/ candidateRole.v = RoleMessage

\* the content of a node the way normalizeAssistantResponse reads it
candidateContent(current) ==
  Trim(stringifyContent(Coalesce(<<Get(current, "content"),
                                   Get(current, "output_text"),
                                   Get(current, "outputText"),
                                   Get(current, "text")>>)))

\* enqueue(value) on the scan state [queue, visited]: a non-blank string is
\* queued as the node {content: text}, an object or array once
enqueue(scan, value) ==
  IF IsNullish(value) THEN scan
  ELSE IF IsString(value)
  THEN IF Trim(value.v) # <<>>
       THEN [scan EXCEPT !.queue =
               Append(@, JObj(<< <<"content", JStr(Trim(value.v))>> >>))]
       ELSE scan
  ELSE IF value \in scan.visited THEN scan
  ELSE [queue |-> Append(scan.queue, value),
        visited |-> scan.visited \cup {value}]

\* arrays are enqueued element by element
Spread(value) == IF IsArray(value) THEN At(value).v ELSE <<value>>

RECURSIVE EnqueueAll(_, _)
EnqueueAll(scan, values) ==
  IF values = <<>> THEN scan
  ELSE EnqueueAll(enqueue(scan, Head(values)), Tail(values))

RECURSIVE SpreadAll(_)
SpreadAll(values) ==
  IF values = <<>> THEN <<>>
  ELSE Spread(Head(values)) \o SpreadAll(Tail(values))

nestedCandidates(current) ==
  <<Get(current, "message"),
    Get(current, "data"),
    Get(Get(current, "data"), "message"),
    Get(Get(current, "data"), "response"),
    Get(Get(Get(current, "data"), "response"), "message"),
    Get(current, "result"),
    Get(current, "results"),
    Get(current, "response"),
    Get(current, "responses"),
    Get(current, "payload"),
    Get(current, "messages"),
    Get(current, "outputs"),
    Get(current, "output"),
    Get(current, "choices"),
    Get(current, "delta"),
    Get(current, "event")>>

\* Object.values(current)
ObjectValues(current) ==
  IF IsObject(current)
  THEN [i \in 1..Len(At(current).v) |-> At(current).v[i][2]]
  ELSE IF IsArray(current) THEN At(current).v
  ELSE <<>>

\* the outcome of normalizeAssistantResponse: the content and the id of the
\* node it was read from, or a thrown error
Normalized(content, id) == [ok |-> TRUE, content |-> content, id |-> id]
NormalizationError == [ok |-> FALSE, content |-> <<>>, id |-> Undefined]

\* the while loop of normalizeAssistantResponse
RECURSIVE ScanQueue(_, _)
ScanQueue(scan, fallback) ==
  IF scan.queue = <<>>
  THEN fallback
  ELSE LET current == Head(scan.queue)
           content == candidateContent(current)
       IN  IF content # <<>> /\ AcceptsRole(resolveRole(current))
           THEN Normalized(content, Get(current, "id"))
           ELSE ScanQueue(
                  EnqueueAll([scan EXCEPT !.queue = Tail(@)],
                             SpreadAll(nestedCandidates(current))
                               \o SpreadAll(ObjectValues(current))),
                  IF content # <<>> /\ ~fallback.ok
                  THEN Normalized(content, Get(current, "id")) ELSE fallback)

normalizeAssistantResponse(payload) ==
  IF IsNullish(payload) THEN NormalizationError
  ELSE IF IsString(payload)
  THEN IF Trim(payload.v) # <<>>
       THEN Normalized(Trim(payload.v), Undefined) ELSE NormalizationError
  ELSE ScanQueue(enqueue([queue |-> <<>>, visited |-> {}], payload),
                 NormalizationError)

\* what the client's actions do not touch
engineAndResolver ==
  <<vars, timeoutHandles, pendingTimeouts, nextHandle, superseded, resolution,
    storageFault, scannerVars, graphVars>>

\* The payloads.  A message has a role (or none) and a content (a text, a
\* blank text, or none); it arrives bare or inside a wrapper, and the
\* outermost object may carry a further string field before or after.
TextHi == <<"h","i">>
TextBlank == <<" ">>
TextId == <<"x">>
TextOk == <<"o","k">>

MessageRoles == {Undefined, JStr(RoleAssistant), JStr(RoleUser), JStr(RoleModel)}
MessageContents == {Undefined, JStr(TextHi), JStr(TextBlank)}

\* an object of the fields whose value is not Undefined
ObjectOf(fields) == JObj(SelectSeq(fields, LAMBDA f : f[2] # Undefined))

MessageOf(role, content) == ObjectOf(<< <<"role", role>>, <<"content", content>> >>)

Wrappers == {"bare", "message", "choices", "data"}

Wrap(wrapper, message) ==
  CASE wrapper = "bare" -> message
    [] wrapper = "message" -> JObj(<< <<"message", message>> >>)
    [] wrapper = "choices" ->
         JObj(<< <<"choices", JArr(<<JObj(<< <<"message", message>> >>)>>)>> >>)
    [] wrapper = "data" ->
         JObj(<< <<"data",
                   JObj(<< <<"response", JObj(<< <<"message", message>> >>)>> >>)>> >>)

Extras == {"none", "id", "status"}

WithExtra(extra, object) ==
  CASE extra = "none" -> object
    [] extra = "id" -> JObj(<< <<"id", JStr(TextId)>> >> \o object.v)
    [] extra = "status" -> JObj(object.v \o << <<"status", JStr(TextOk)>> >>)

Payloads ==
  {WithExtra(extra, Wrap(wrapper, MessageOf(role, content))) :
     extra \in Extras, wrapper \in Wrappers,
     role \in MessageRoles, content \in MessageContents}
  \cup {JNull, JStr(TextBlank), JStr(TextHi), JObj(<<>>),
        JObj(<< <<"messages",
                  JArr(<<MessageOf(JStr(RoleUser), JStr(TextOk)),
                         MessageOf(JStr(RoleAssistant), JStr(TextHi))>>)>> >>)}

\* the direct API call waits for the answer drawn here
DirectInit ==
  /\ mounted = TRUE
  /\ path = "/"
  /\ currentPathRef = path
  /\ components = <<>>
  /\ componentsRef = <<>>
  /\ highlightedSelectors = {}
  /\ timeouts = {}
  /\ activeWalkthrough = Null
  /\ activeWalkthroughRef = Null
  /\ storage = Null
  /\ storageFault = "none"
  /\ ScannerIdle
  /\ GraphIdle
  /\ timers = EmptyBag
  /\ now = 0
  /\ fired = NoneFired
  /\ stopped = FALSE
  /\ timeoutHandles = [s \in Selectors |-> 0]
  /\ pendingTimeouts = {}
  /\ nextHandle = 1
  /\ superseded = {}
  /\ resolution = Null
  /\ agentResponse \in Payloads
  /\ normalized = Null
  /\ messageHistory = <<>>
  /\ phase = "idle"
  /\ delivered = 0
  /\ collected = <<>>
  /\ handlerCalls = <<>>
  /\ streamingContent = <<>>
  /\ RequestIdle
  /\ TransportIdle(DefaultAttempts)

\* the user message of the request, and the assistant message built from a
\* normalized answer: its id is the answer's, or the time when there is none
UserMessage ==
  [id |-> JStr(<<"u","s","e","r","-","0">>), role |-> "user", content |-> <<"q">>]
AssistantMessage(answer) ==
  [id |-> IF Truthy(answer.id) THEN answer.id ELSE JStr(<<"0">>),
   role |-> "assistant", content |-> answer.content]

\* sendMessage over the direct API call (no orchestrator, no mock mode),
\* one request: the user message is pushed, the answer is normalized, and
\* the assistant message is pushed unless normalization threw or the
\* history already holds its id
sendMessageDirect ==
  /\ phase = "idle"
  /\ normalized' = normalizeAssistantResponse(agentResponse)
  /\ messageHistory' =
       LET sent == Append(messageHistory, UserMessage)
           assistantMessage == AssistantMessage(normalized')
       IN  IF normalized'.ok
                /\ ~\E i \in 1..Len(sent) : sent[i].id = assistantMessage.id
           THEN Append(sent, assistantMessage)
           ELSE sent
  /\ phase' = "done"
  /\ UNCHANGED <<agentResponse, delivered, collected, handlerCalls, streamingContent>>
  /\ UNCHANGED <<requestVars, transportVars>>
  /\ UNCHANGED engineAndResolver

DirectNext == sendMessageDirect

DirectSpec == DirectInit /\ [][DirectNext]_<<vars, aux>>

\* the object nodes of a payload
RECURSIVE NodesOf(_)
RECURSIVE NodesOfAll(_)
NodesOfAll(values) ==
  IF values = <<>> THEN {} ELSE NodesOf(Head(values)) \cup NodesOfAll(Tail(values))
NodesOf(value) ==
  IF IsObject(value) THEN {value} \cup NodesOfAll(ObjectValues(value))
  ELSE IF IsArray(value) THEN NodesOfAll(value.v)
  ELSE {}

\* the non-empty texts that the content fields of the payload's nodes yield
ContentTexts(payload) ==
  {candidateContent(node) : node \in NodesOf(payload)} \ {<<>>}

\* the payload is an assistant message with the content "hi" inside the
\* choices wrapper, whatever else the outermost object carries
IsChoicesHi(payload) ==
  \E extra \in Extras :
    payload = WithExtra(extra, Wrap("choices",
                MessageOf(JStr(RoleAssistant), JStr(TextHi))))

\* C18: for a payload with a content-bearing node, the text that
\* whole-payload normalization returns always comes from a content field (content / text / output-text variants) of a node of the
\* payload, and it is a text of a node with an assistant-like or absent role
\* if there is such a node; in particular the payload
\* {choices:[{message:{role:"assistant",content:"hi"}}]} yields "hi"
\* whatever other fields it carries.
C18_TextFromContentField ==
  (phase = "done" /\ IsObject(agentResponse) /\ ContentTexts(agentResponse) # {})
    => /\ normalized.ok => normalized.content \in ContentTexts(agentResponse)
       /\ (\E node \in NodesOf(agentResponse) :
             candidateContent(node) # <<>> /\ AcceptsRole(resolveRole(node)))
            => /\ normalized.ok
               /\ \E node \in NodesOf(agentResponse) :
                    /\ candidateContent(node) = normalized.content
                    /\ AcceptsRole(resolveRole(node))
       /\ IsChoicesHi(agentResponse) => normalized.content = TextHi

\* C19: normalizeAssistantResponse fails, and sendMessage rejects without
\* appending an assistant message to the history, whenever no node of the
\* payload yields non-empty text from a content field - a null payload, a
\* blank string and an object with only non-content fields included.
C19_FailsWithoutContent ==
  ( /\ phase = "done"
    /\ ContentTexts(agentResponse) = {}
    /\ ~(IsString(agentResponse) /\ Trim(agentResponse.v) # <<>>) )
    => /\ ~normalized.ok
       /\ \A i \in 1..Len(messageHistory) : messageHistory[i].role # "assistant"

\* ------------------------------------------------------------------------
\* The agent client: sendMessage over an orchestrator (HttpAgentOrchestrator)
\* ------------------------------------------------------------------------

\* the actions an agent emits: a tag and the payload its handler reads
NavigateAction == [type |-> "navigate", payload |-> <<"/","a">>]
HighlightAction == [type |-> "highlight", payload |-> <<"#","x">>]
ScrollToAction == [type |-> "scrollTo", payload |-> <<"#","x">>]
ClickAction == [type |-> "click", payload |-> <<"#","x">>]
OtherAction == [type |-> "other", payload |-> <<>>]

HandlerTags == {"navigate", "highlight", "scrollTo", "click"}

\* the switch on action.type, with a handler configured for each tag: the
\* handler calls that one action causes
ExecuteAction(action) ==
  IF action.type \in HandlerTags /\ action.payload # <<>>
  THEN <<[handler |-> action.type, argument |-> action.payload]>>
  ELSE <<>>

\* actions.forEach(...)
RECURSIVE ExecuteActions(_)
ExecuteActions(actions) ==
  IF actions = <<>> THEN <<>>
  ELSE ExecuteAction(Head(actions)) \o ExecuteActions(Tail(actions))

\* the events of a stream
TextDeltaOf(text) ==
  [event |-> "text_delta", text |-> text, actions |-> <<>>, sessionId |-> <<>>]
TextDelta == TextDeltaOf(TextHi)
ActionsOf(actions) ==
  [event |-> "actions", text |-> <<>>, actions |-> actions, sessionId |-> <<>>]
ErrorEvent == [event |-> "error", text |-> <<>>, actions |-> <<>>, sessionId |-> <<>>]
CompleteWith(sessionId) ==
  [event |-> "complete", text |-> <<>>, actions |-> <<>>, sessionId |-> sessionId]
Complete == CompleteWith(<<>>)

SessionOne == <<"s","1">>
SessionTwo == <<"s","2">>

\* the tags of an inline control block, and the block of a navigate action
\* up to its closing tag
OpenTag == <<"[","A","C","T","I","O","N","S","]">>
CloseTag == <<"[","/","A","C","T","I","O","N","S","]">>
NavigateJson ==
  <<"{","\"","t","y","p","e","\"",":","\"","n","a","v","i","g","a","t","e","\"","}">>
OpenBlock == OpenTag \o NavigateJson

\* the first index from which sub occurs in s at or after from, 0 if none
IndexOfFrom(s, sub, from) ==
  LET hits == {i \in from..(Len(s) - Len(sub) + 1) :
                 SubSeq(s, i, i + Len(sub) - 1) = sub}
  IN  IF hits = {} THEN 0 ELSE CHOOSE i \in hits : \A j \in hits : i <= j

\* text.replace(/\[ACTIONS\](.*?)\[\/ACTIONS\]/gis, ''): every block from an
\* opening tag to the nearest closing tag after it is removed
RECURSIVE StripActions(_)
StripActions(text) ==
  LET lower == ToLowerCase(text)
      open == IndexOfFrom(lower, ToLowerCase(OpenTag), 1)
      close == IF open = 0 THEN 0
               ELSE IndexOfFrom(lower, ToLowerCase(CloseTag), open + Len(OpenTag))
  IN  IF open = 0 \/ close = 0 THEN text
      ELSE SubSeq(text, 1, open - 1)
             \o StripActions(SubSeq(text, close + Len(CloseTag), Len(text)))

ActionLists ==
  {<<NavigateAction>>, <<HighlightAction, ScrollToAction>>, <<ClickAction, OtherAction>>}

Events ==
  {TextDelta, TextDeltaOf(OpenBlock), TextDeltaOf(CloseTag), ErrorEvent,
   Complete, CompleteWith(SessionOne)}
  \cup {ActionsOf(list) : list \in ActionLists}

\* a stream carries at most MaxEvents events
MaxEvents == 2

Streams == UNION {[1..n -> Events] : n \in 0..MaxEvents}

\* the answers of the agent endpoint: an event stream, one JSON document
\* with a content and an action list, or a failure (the fetch rejects or the
\* status is not 2xx)
StreamReply(stream) ==
  [kind |-> "sse", events |-> stream, content |-> <<>>, actions |-> <<>>]
FailedReply == [kind |-> "fail", events |-> <<>>, content |-> <<>>, actions |-> <<>>]

Replies ==
  {StreamReply(stream) : stream \in Streams}
  \cup {[kind |-> "json", events |-> <<>>, content |-> content, actions |-> list] :
          content \in {<<>>, TextOk}, list \in ActionLists \cup {<<>>}}
  \cup {FailedReply}

ClientInit ==
  /\ mounted = TRUE
  /\ path = "/"
  /\ currentPathRef = path
  /\ components = <<>>
  /\ componentsRef = <<>>
  /\ highlightedSelectors = {}
  /\ timeouts = {}
  /\ activeWalkthrough = Null
  /\ activeWalkthroughRef = Null
  /\ storage = Null
  /\ storageFault = "none"
  /\ ScannerIdle
  /\ GraphIdle
  /\ timers = EmptyBag
  /\ now = 0
  /\ fired = NoneFired
  /\ stopped = FALSE
  /\ timeoutHandles = [s \in Selectors |-> 0]
  /\ pendingTimeouts = {}
  /\ nextHandle = 1
  /\ superseded = {}
  /\ resolution = Null
  /\ agentResponse \in Replies
  /\ normalized = Null
  /\ messageHistory = <<>>
  /\ phase = "idle"
  /\ delivered = 0
  /\ collected = <<>>
  /\ handlerCalls = <<>>
  /\ streamingContent = <<>>
  /\ RequestIdle
  /\ TransportIdle(DefaultAttempts)

\* Date.now() in the ids: request k is sent at tick 2k - 1, and the
\* orchestrator stamps its answer at the same tick or at the next one
SendTime(k) == 2 * k - 1
Stamp(prefix, tick) == JStr(prefix \o [i \in 1..tick |-> "1"])
UserPrefix == <<"u","s","e","r","-">>
AssistantPrefix == <<"a","s","s","i","s","t","a","n","t","-">>

\* streamingMessageId of the running request
StreamingMessageId == Stamp(AssistantPrefix, SendTime(Len(requests)))
NoResponseReceived ==
  <<"N","o"," ","r","e","s","p","o","n","s","e"," ",
    "r","e","c","e","i","v","e","d">>

\* the index of the message with this id, 0 if there is none (findIndex)
FindIndex(history, id) ==
  IF \E i \in 1..Len(history) : history[i].id = id
  THEN CHOOSE i \in 1..Len(history) :
         history[i].id = id /\ \A j \in 1..(i - 1) : history[j].id # id
  ELSE 0

\* sendMessage up to the call of orchestrate: the user message and the
\* placeholder of the assistant message are pushed and the request takes
\* the stored session id along.  A later request gets the next answer.
pushRequest ==
  /\ \/ phase = "idle"
     \/ phase \in {"done", "rejected"} /\ pendingReplies # <<>>
  /\ agentResponse' = IF phase = "idle" THEN agentResponse ELSE Head(pendingReplies)
  /\ pendingReplies' = IF phase = "idle" THEN pendingReplies ELSE Tail(pendingReplies)
  /\ requests' = Append(requests, currentSessionId)
  /\ messageHistory' =
       messageHistory \o
         <<[id |-> Stamp(UserPrefix, SendTime(Len(requests'))),
            role |-> "user", content |-> <<"q">>],
           [id |-> Stamp(AssistantPrefix, SendTime(Len(requests'))),
            role |-> "assistant", content |-> <<>>]>>
  /\ phase' = "streaming"
  /\ delivered' = 0
  /\ collected' = <<>>
  /\ handlerCalls' = <<>>
  /\ streamingContent' = <<>>
  /\ callbackLog' = <<>>
  /\ failure' = ""
  /\ UNCHANGED <<normalized, currentSessionId>>
  /\ UNCHANGED engineAndResolver

\* sendMessage with the orchestrator's transport left out
sendMessage ==
  /\ pushRequest
  /\ UNCHANGED <<retryAttempts, fetchState, attempt, fetchCalls, aborted,
                 abortTimer, backoffs, deadlinePassed>>

\* (variant of StoredSessionId that stores whatever the event carries)
StoredSessionIdAlways(stored, sessionId) == sessionId

\* onComplete: if (sessionId) currentSessionId = sessionId
StoredSessionId(stored, sessionId) ==
  IF sessionId # <<>> THEN sessionId ELSE stored

\* the streaming callback that handleSSEStream calls for an event
CallbackOf(eventData) ==
  CASE eventData.event = "text_delta" -> "onTextDelta"
    [] eventData.event = "actions" -> "onActions"
    [] eventData.event = "error" -> "onError"
    [] eventData.event = "complete" -> "onComplete"

\* handleSSEStream reads the next event of the stream and calls the
\* callback for it: onTextDelta updates the placeholder, onActions runs the
\* handlers, onComplete stores the session id; the error that the error
\* case throws after onError is caught by the handler around the switch, and
\* the loop goes on with the next line
handleSSEEvent ==
  /\ phase = "streaming"
  /\ agentResponse.kind = "sse"
  /\ delivered < Len(agentResponse.events)
  /\ LET eventData == agentResponse.events[delivered + 1]
         index == FindIndex(messageHistory, StreamingMessageId)
     IN  /\ delivered' = delivered + 1
         /\ callbackLog' = Append(callbackLog, CallbackOf(eventData))
         /\ streamingContent' =
              IF eventData.event = "text_delta"
              THEN streamingContent \o eventData.text ELSE streamingContent
         /\ messageHistory' =
              IF eventData.event = "text_delta" /\ index > 0
              THEN [messageHistory EXCEPT
                      ![index].content = Trim(StripActions(streamingContent'))]
              ELSE messageHistory
         /\ collected' =
              IF eventData.event = "actions"
              THEN collected \o eventData.actions ELSE collected
         /\ handlerCalls' =
              IF eventData.event = "actions"
              THEN handlerCalls \o ExecuteActions(eventData.actions)
              ELSE handlerCalls
         /\ currentSessionId' =
              IF eventData.event = "complete"
              THEN StoredSessionId(currentSessionId, eventData.sessionId)
              ELSE currentSessionId
  /\ UNCHANGED <<agentResponse, normalized, phase, requests, pendingReplies>>
  /\ UNCHANGED transportVars
  /\ UNCHANGED engineAndResolver

\* what orchestrate returns: the message, stamped at tick, and the action list
orchestratorResponse(tick) ==
  IF agentResponse.kind = "sse"
  THEN [message |-> [id |-> Stamp(AssistantPrefix, tick), role |-> "assistant",
                     content |-> IF streamingContent # <<>>
                                 THEN streamingContent ELSE NoResponseReceived],
        actions |-> collected]
  ELSE [message |-> [id |-> Stamp(AssistantPrefix, tick), role |-> "assistant",
                     content |-> agentResponse.content],
        actions |-> agentResponse.actions]

\* the actions sendMessage runs the handlers for after orchestrate returned
FinalActions(finalResponse) == finalResponse.actions

\* orchestrate has nothing more to read
StreamEnded ==
  /\ phase = "streaming"
  /\ agentResponse.kind # "fail"
  /\ agentResponse.kind = "sse" => delivered = Len(agentResponse.events)

\* orchestrate returns (the stream ended, or the JSON document arrived):
\* sendMessage writes the final message over the placeholder and runs the
\* handlers for the actions of the response
orchestrateReturns(tick) ==
  /\ StreamEnded
  /\ tick \in {SendTime(Len(requests)), SendTime(Len(requests)) + 1}
  /\ LET finalResponse == orchestratorResponse(tick)
         finalIndex == FindIndex(messageHistory, StreamingMessageId)
         finalContent ==
           Trim(StripActions(IF streamingContent # <<>>
                             THEN streamingContent
                             ELSE finalResponse.message.content))
         assistantMessage ==
           [finalResponse.message EXCEPT
              !.content = IF finalIndex > 0 THEN finalContent
                          ELSE Trim(StripActions(finalResponse.message.content))]
         updated ==
           IF finalIndex > 0
           THEN [messageHistory EXCEPT ![finalIndex] = assistantMessage]
           ELSE Append(messageHistory, assistantMessage)
     IN  /\ messageHistory' =
              IF \E i \in 1..Len(updated) : updated[i].id = assistantMessage.id
              THEN updated ELSE Append(updated, assistantMessage)
         /\ handlerCalls' =
              handlerCalls \o ExecuteActions(FinalActions(finalResponse))
  /\ phase' = "done"
  /\ UNCHANGED <<agentResponse, normalized, delivered, collected, streamingContent>>
  /\ UNCHANGED <<requestVars, transportVars>>
  /\ UNCHANGED engineAndResolver

\* messageHistory.splice(errorIndex, 1) for the placeholder
RemovePlaceholder(history, id) ==
  LET errorIndex == FindIndex(history, id)
  IN  IF errorIndex > 0
      THEN SubSeq(history, 1, errorIndex - 1)
             \o SubSeq(history, errorIndex + 1, Len(history))
      ELSE history

\* orchestrate throws (the fetch rejects or the status is not 2xx): onError
\* is called, sendMessage removes the placeholder and rejects
orchestrateThrows ==
  /\ phase = "streaming"
  /\ agentResponse.kind = "fail"
  /\ callbackLog' = Append(callbackLog, "onError")
  /\ messageHistory' = RemovePlaceholder(messageHistory, StreamingMessageId)
  /\ phase' = "rejected"
  /\ failure' = "orchestration"
  /\ UNCHANGED <<agentResponse, normalized, delivered, collected, handlerCalls,
                 streamingContent, currentSessionId, requests, pendingReplies>>
  /\ UNCHANGED <<retryAttempts, fetchState, attempt, fetchCalls, aborted,
                 abortTimer, backoffs, deadlinePassed>>
  /\ UNCHANGED engineAndResolver

\* orchestrate returned and the host's transformResponse throws: sendMessage
\* rejects from outside the handler that removes the placeholder
transformResponseThrows ==
  /\ StreamEnded
  /\ phase' = "rejected"
  /\ failure' = "transform"
  /\ UNCHANGED <<agentResponse, normalized, messageHistory, delivered, collected,
                 handlerCalls, streamingContent>>
  /\ UNCHANGED requestVars
  /\ UNCHANGED <<retryAttempts, fetchState, attempt, fetchCalls, aborted,
                 abortTimer, backoffs, deadlinePassed>>
  /\ UNCHANGED engineAndResolver

ClientNext ==
  \/ sendMessage
  \/ handleSSEEvent
  \/ \E tick \in 1..(2 * Len(requests)) : orchestrateReturns(tick)
  \/ orchestrateThrows
  \/ transformResponseThrows

ClientSpec == ClientInit /\ [][ClientNext]_<<vars, aux>>

\* the number of occurrences of an element in a sequence
Count(seq, x) == Cardinality({i \in 1..Len(seq) : seq[i] = x})

\* the actions the agent emitted for the request, in order
RECURSIVE EmittedIn(_)
EmittedIn(events) ==
  IF events = <<>> THEN <<>> ELSE Head(events).actions \o EmittedIn(Tail(events))

Emitted ==
  IF agentResponse.kind = "sse"
  THEN EmittedIn(agentResponse.events) ELSE agentResponse.actions

HandledActions == {NavigateAction, HighlightAction, ScrollToAction, ClickAction}

\* C20: once sendMessage has returned, every action the agent emitted for
\* the request with one of the tags navigate / highlight / scrollTo / click
\* has caused exactly one call of the handler for its tag, whether it came
\* in a streamed actions event, in the action list of the final response,
\* or in both.
C20_OneInvocationPerAction ==
  phase = "done" =>
    \A action \in HandledActions :
      Count(handlerCalls, [handler |-> action.type, argument |-> action.payload])
        = Count(Emitted, action)

\* the events of the running stream that were read so far
ReadEvents == SubSeq(agentResponse.events, 1, delivered)

\* the position of the first error event among them (0: none)
FirstError ==
  IF \E i \in 1..delivered : agentResponse.events[i].event = "error"
  THEN CHOOSE i \in 1..delivered :
         /\ agentResponse.events[i].event = "error"
         /\ \A j \in 1..(i - 1) : agentResponse.events[j].event # "error"
  ELSE 0

\* C21: once handleSSEStream has read an error event, onError was called
\* for it, no later event of the stream is handed to a callback (onComplete
\* included), and sendMessage does not resolve.
C21_ErrorEndsStream ==
  (agentResponse # Null /\ agentResponse.kind = "sse" /\ FirstError > 0)
    => /\ callbackLog[FirstError] = "onError"
       /\ Len(callbackLog) = FirstError
       /\ phase # "done"

\* the text deltas of the running stream that were read so far, joined
RECURSIVE JoinTexts(_)
JoinTexts(events) ==
  IF events = <<>> THEN <<>> ELSE Head(events).text \o JoinTexts(Tail(events))

\* the assistant message of the running request in the history
AssistantOfRequest ==
  SelectSeq(messageHistory,
            LAMBDA msg : msg.role = "assistant"
                           /\ \E tick \in {SendTime(Len(requests)),
                                           SendTime(Len(requests)) + 1} :
                                msg.id = Stamp(AssistantPrefix, tick))

\* the stream carried a whole block with a navigate action in its text
BlockStreamed ==
  /\ agentResponse # Null /\ agentResponse.kind = "sse"
  /\ Includes(JoinTexts(ReadEvents), OpenBlock \o CloseTag)

\* C22: when the streamed text held an [ACTIONS] block with a navigate
\* action, the message that sendMessage returns does not show the block,
\* and the navigate handler was called for the action of the block.
C22_EmbeddedActionsDispatched ==
  (phase = "done" /\ BlockStreamed)
    => /\ \A i \in 1..Len(AssistantOfRequest) :
            ~Includes(AssistantOfRequest[i].content, OpenTag)
       /\ \E i \in 1..Len(handlerCalls) : handlerCalls[i].handler = "navigate"

\* C23: for a stream of text deltas, the content of the final assistant
\* message is the deltas' text joined in arrival order, and the final
\* message carries the id of the placeholder.
C23_FinalContentIsConcatenation ==
  ( /\ phase = "done"
    /\ agentResponse.kind = "sse"
    /\ agentResponse.events # <<>>
    /\ \A i \in 1..Len(agentResponse.events) :
         agentResponse.events[i].event = "text_delta"
            /\ agentResponse.events[i].text = TextHi )
    => /\ Len(AssistantOfRequest) = 1
       /\ AssistantOfRequest[1].content = JoinTexts(agentResponse.events)
       /\ AssistantOfRequest[1].id = StreamingMessageId

\* C29: after a rejected sendMessage the history holds no assistant message
\* made by that call, whatever made it reject (the orchestrator failing, the
\* response transformation throwing).
C29_HistoryRolledBack ==
  phase = "rejected" => AssistantOfRequest = <<>>

\* C30: while a stream is read, the content of the assistant message in the
\* history never shows any part of an [ACTIONS] block, also when the closing
\* tag of the block has not arrived yet.
C30_NoControlBlockShown ==
  phase = "streaming" =>
    \A i \in 1..Len(AssistantOfRequest) :
      ~Includes(AssistantOfRequest[i].content, OpenTag)

\* ------------------------------------------------------------------------
\* Session continuity over several requests
\* ------------------------------------------------------------------------

\* at most MaxRequests calls of sendMessage
MaxRequests == 3

\* the answers that matter for the session id: a stream that completes with
\* an id, with another id, without one, or with an id and then without one,
\* and a failed request
SessionReplies ==
  {StreamReply(<<CompleteWith(SessionOne)>>),
   StreamReply(<<CompleteWith(SessionTwo)>>),
   StreamReply(<<Complete>>),
   StreamReply(<<CompleteWith(SessionOne), Complete>>),
   FailedReply}

SessionInit ==
  /\ mounted = TRUE
  /\ path = "/"
  /\ currentPathRef = path
  /\ components = <<>>
  /\ componentsRef = <<>>
  /\ highlightedSelectors = {}
  /\ timeouts = {}
  /\ activeWalkthrough = Null
  /\ activeWalkthroughRef = Null
  /\ storage = Null
  /\ storageFault = "none"
  /\ ScannerIdle
  /\ GraphIdle
  /\ timers = EmptyBag
  /\ now = 0
  /\ fired = NoneFired
  /\ stopped = FALSE
  /\ timeoutHandles = [s \in Selectors |-> 0]
  /\ pendingTimeouts = {}
  /\ nextHandle = 1
  /\ superseded = {}
  /\ resolution = Null
  /\ agentResponse \in SessionReplies
  /\ normalized = Null
  /\ messageHistory = <<>>
  /\ phase = "idle"
  /\ delivered = 0
  /\ collected = <<>>
  /\ handlerCalls = <<>>
  /\ streamingContent = <<>>
  /\ callbackLog = <<>>
  /\ currentSessionId = <<>>
  /\ requests = <<>>
  /\ pendingReplies \in UNION {[1..n -> SessionReplies] : n \in 0..(MaxRequests - 1)}
  /\ TransportIdle(DefaultAttempts)

SessionSpec == SessionInit /\ [][ClientNext]_<<vars, aux>>

\* the step reads a complete event that carries a session id
ReadsSessionId ==
  /\ delivered' = delivered + 1
  /\ agentResponse.events[delivered'].event = "complete"
  /\ agentResponse.events[delivered'].sessionId # <<>>

\* C24: a request carries the session id that the last complete event with
\* an id stored; the stored id changes only when a complete event carries
\* an id, to that id - a complete event without one and a failed request
\* leave it as it is.
C24_SessionContinuity ==
  [][ /\ requests' # requests =>
           requests' = Append(requests, currentSessionId)
      /\ IF ReadsSessionId
         THEN currentSessionId' = agentResponse.events[delivered'].sessionId
         ELSE currentSessionId' = currentSessionId ]_<<vars, aux>>

\* a third request carries the id that the first request's stream stored,
\* after a second request that was rejected when orchestrate threw
C24_Witness ==
  /\ Len(requests) = 3
  /\ requests[1] = <<>>
  /\ requests[2] = SessionOne
  /\ requests[3] = SessionOne
  /\ phase = "streaming"
  /\ Len(SelectSeq(messageHistory, LAMBDA msg : msg.role = "assistant")) = 2
  /\ Len(SelectSeq(messageHistory, LAMBDA msg : msg.role = "user")) = 3

\* ------------------------------------------------------------------------
\* The default highlight action handler (useTaskMaprActionHandlers)
\* ------------------------------------------------------------------------

\* the selector that highlightComponent builds for a component
DataHighlightSelector(id) ==
  <<"[","d","a","t","a","-","h","i","g","h","l","i","g","h","t","-","i","d","=","\"">>
    \o id \o <<"\"","]">>

\* the selector strings of the highlight actions: three that look like CSS
\* (two of them would also resolve to component a as a query), the name of
\* component a, and a string that is neither
HashA == <<"#","a">>
DotA == <<".","a">>
AttrA == <<"a","[","x","]">>
NameA == <<"A">>
Unknown == <<"z","z">>
ActionSelectors == {HashA, DotA, AttrA, NameA, Unknown}

HandlerSelectors == ActionSelectors \cup {DataHighlightSelector(c.id) : c \in Candidates}

\* (variant of LooksLikeCss that knows the '#' prefix only)
LooksLikeCssHashOnly(selector) ==
  selector # <<>> /\ selector[1] = "#"

\* selector.startsWith('#') || selector.startsWith('.') || selector.includes('[')
LooksLikeCss(selector) ==
  \/ selector # <<>> /\ selector[1] = "#"
  \/ selector # <<>> /\ selector[1] = "."
  \/ Includes(selector, <<"[">>)

HandlerInit ==
  /\ mounted = TRUE
  /\ path = "/"
  /\ currentPathRef = path
  /\ components \in {<<>>, <<CompA>>}
  /\ componentsRef = components
  /\ highlightedSelectors = {}
  /\ timeouts = {}
  /\ activeWalkthrough = Null
  /\ activeWalkthroughRef = Null
  /\ storage = Null
  /\ storageFault = "none"
  /\ ScannerIdle
  /\ GraphIdle
  /\ timers = EmptyBag
  /\ now = 0
  /\ fired = NoneFired
  /\ stopped = FALSE
  /\ timeoutHandles = [s \in HandlerSelectors |-> 0]
  /\ pendingTimeouts = {}
  /\ nextHandle = 1
  /\ superseded = {}
  /\ resolution = Null
  /\ ClientIdle

\* what handleHighlight does for one selector of the action (the body of
\* selectors.forEach): a CSS-like string goes to highlight, any other string
\* to highlightComponent and, when that returns false, to highlight
handleHighlight(selector, duration) ==
  IF LooksLikeCss(selector)
  THEN highlight(selector, duration)
  ELSE IF findComponent(selector) # NoComponent
  THEN highlight(DataHighlightSelector(findComponent(selector).id), duration)
  ELSE highlight(selector, duration)

HandlerNext ==
  \/ \E selector \in ActionSelectors, duration \in Durations :
       handleHighlight(selector, duration)
  \/ \E t \in pendingTimeouts : TimeoutFire(t)

HandlerSpec == HandlerInit /\ [][HandlerNext]_<<vars, aux>>

\* the string begins with '#' or '.' or contains '['
CssLike(selector) ==
  \/ Head(selector) \in {"#", "."}
  \/ \E i \in 1..Len(selector) : selector[i] = "["

\* the registered components that the string resolves to as a query
ResolvedBy(selector) ==
  {c \in Candidates : findComponentIn(componentsRef, selector) = c}

\* C25: the handler applies a selector string of a highlight action exactly
\* one way: a string that begins with '#' or '.' or contains '[' is
\* highlighted as it is; any other string is highlighted through the
\* component it resolves to, and as it is only if it resolves to none.
C25_SelectorAppliedOneWay ==
  [][\A selector \in ActionSelectors, duration \in Durations :
       handleHighlight(selector, duration) =>
         highlightedSelectors' = highlightedSelectors \cup
           IF CssLike(selector) THEN {selector}
           ELSE IF ResolvedBy(selector) # {}
           THEN {DataHighlightSelector(c.id) : c \in ResolvedBy(selector)}
           ELSE {selector}]_<<vars, aux>>

\* with component a registered, "#a", ".a" and "zz" are highlighted as they
\* are and "A" through the component
C25_Witness ==
  /\ componentsRef = <<CompA>>
  /\ highlightedSelectors = {HashA, DotA, Unknown, DataHighlightSelector(IdA)}

\* ------------------------------------------------------------------------
\* The direct API call with its transport: fetchWithRetry and the abort timer
\* ------------------------------------------------------------------------

\* config.retry.attempts is at most MaxAttempts
MaxAttempts == 3

\* the answers of a fetch that resolves: a 2xx response with a payload that
\* normalizes, one with a payload that does not, and a non-2xx response
GoodPayload == MessageOf(JStr(RoleAssistant), JStr(TextHi))
Responses ==
  {[ok |-> TRUE, payload |-> GoodPayload],
   [ok |-> TRUE, payload |-> JObj(<<>>)],
   [ok |-> FALSE, payload |-> JNull]}

RetryInit ==
  /\ mounted = TRUE
  /\ path = "/"
  /\ currentPathRef = path
  /\ components = <<>>
  /\ componentsRef = <<>>
  /\ highlightedSelectors = {}
  /\ timeouts = {}
  /\ activeWalkthrough = Null
  /\ activeWalkthroughRef = Null
  /\ storage = Null
  /\ storageFault = "none"
  /\ ScannerIdle
  /\ GraphIdle
  /\ timers = EmptyBag
  /\ now = 0
  /\ fired = NoneFired
  /\ stopped = FALSE
  /\ timeoutHandles = [s \in Selectors |-> 0]
  /\ pendingTimeouts = {}
  /\ nextHandle = 1
  /\ superseded = {}
  /\ resolution = Null
  /\ agentResponse = Null
  /\ normalized = Null
  /\ messageHistory = <<>>
  /\ phase = "idle"
  /\ delivered = 0
  /\ collected = <<>>
  /\ handlerCalls = <<>>
  /\ streamingContent = <<>>
  /\ RequestIdle
  /\ \E attempts \in 1..MaxAttempts : TransportIdle(attempts)

\* 2^n
RECURSIVE Pow2(_)
Pow2(n) == IF n = 0 THEN 1 ELSE 2 * Pow2(n - 1)

\* what the transport steps leave alone
transportFrame == <<delivered, collected, handlerCalls, streamingContent,
                    requestVars, retryAttempts, engineAndResolver>>

\* the number of requests sent so far
RequestsSent == Len(SelectSeq(messageHistory, LAMBDA msg : msg.role = "user"))

\* sendMessage on the direct path up to the first fetch: the user message
\* is pushed, the abort timer of a new controller is set and fetchWithRetry
\* calls fetch
sendMessageFetch ==
  /\ phase \in {"idle", "done", "rejected"}
  /\ RequestsSent < MaxRequests
  /\ messageHistory' =
       Append(messageHistory,
              [UserMessage EXCEPT !.id = Stamp(UserPrefix, SendTime(RequestsSent + 1))])
  /\ phase' = "waiting"
  /\ aborted' = FALSE
  /\ abortTimer' = TRUE
  /\ fetchState' = "inflight"
  /\ attempt' = 1
  /\ fetchCalls' = 1
  /\ backoffs' = <<>>
  /\ failure' = ""
  /\ deadlinePassed' = FALSE
  /\ UNCHANGED <<agentResponse, normalized>>
  /\ UNCHANGED transportFrame

\* the catch of fetchWithRetry goes on to another attempt
MayRetry(tried) == ~(tried >= (IF retryAttempts # 0 THEN retryAttempts ELSE 1))

\* the fetch in flight rejects (a network error, or the abort of its
\* signal): fetchWithRetry waits for the backoff delay, or gives up and
\* sendMessage clears the abort timer and rejects
fetchRejects ==
  /\ fetchState = "inflight"
  /\ IF MayRetry(attempt)
     THEN /\ backoffs' = Append(backoffs, DefaultBackoff * Pow2(attempt - 1))
          /\ fetchState' = "backoff"
          /\ UNCHANGED <<phase, abortTimer, failure>>
     ELSE /\ fetchState' = "settled"
          /\ abortTimer' = FALSE
          /\ failure' = IF aborted THEN "timeout" ELSE "network"
          /\ phase' = "rejected"
          /\ UNCHANGED backoffs
  /\ UNCHANGED <<agentResponse, normalized, messageHistory, attempt, fetchCalls,
                 aborted, deadlinePassed>>
  /\ UNCHANGED transportFrame

\* the backoff delay is over: fetchWithRetry calls fetch again, with the
\* same options and so with the same signal
backoffElapses ==
  /\ fetchState = "backoff"
  /\ fetchState' = "inflight"
  /\ attempt' = attempt + 1
  /\ fetchCalls' = fetchCalls + 1
  /\ UNCHANGED <<agentResponse, normalized, messageHistory, phase, aborted,
                 abortTimer, backoffs, failure, deadlinePassed>>
  /\ UNCHANGED transportFrame

\* the fetch in flight resolves with a response (its signal is not
\* aborted): the abort timer is cleared; a non-2xx status makes sendMessage
\* reject, a 2xx response is parsed and normalized
fetchResolves(response) ==
  /\ fetchState = "inflight"
  /\ ~aborted
  /\ fetchState' = "settled"
  /\ abortTimer' = FALSE
  /\ agentResponse' = response.payload
  /\ IF ~response.ok
     THEN /\ failure' = "http"
          /\ phase' = "rejected"
          /\ UNCHANGED <<normalized, messageHistory>>
     ELSE /\ normalized' = normalizeAssistantResponse(response.payload)
          /\ failure' = IF normalized'.ok THEN "" ELSE "normalization"
          /\ phase' = IF normalized'.ok THEN "done" ELSE "rejected"
          /\ messageHistory' =
               LET assistantMessage ==
                     [AssistantMessage(normalized') EXCEPT
                        !.id = IF Truthy(normalized'.id) THEN @
                               ELSE Stamp(<<>>, SendTime(RequestsSent) + 1)]
               IN  IF normalized'.ok
                        /\ ~\E i \in 1..Len(messageHistory) :
                              messageHistory[i].id = assistantMessage.id
                   THEN Append(messageHistory, assistantMessage)
                   ELSE messageHistory
  /\ UNCHANGED <<attempt, fetchCalls, aborted, backoffs, deadlinePassed>>
  /\ UNCHANGED transportFrame

\* the abort timer runs after config.timeout: controller.abort()
abortTimerFires ==
  /\ abortTimer
  /\ abortTimer' = FALSE
  /\ aborted' = TRUE
  /\ deadlinePassed' = TRUE
  /\ UNCHANGED <<agentResponse, normalized, messageHistory, phase, fetchState,
                 attempt, fetchCalls, backoffs, failure>>
  /\ UNCHANGED transportFrame

RetryNext ==
  \/ sendMessageFetch
  \/ fetchRejects
  \/ backoffElapses
  \/ \E response \in Responses : fetchResolves(response)
  \/ abortTimerFires

RetrySpec == RetryInit /\ [][RetryNext]_<<vars, aux>>

\* C26: a direct request calls fetch at most config.retry.attempts times,
\* waits backoff * 2^(k-1) before the k-th retry, and when it rejects for a
\* transport failure - a network error or a non-2xx response - the attempts
\* were used up.
C26_RetryPolicy ==
  /\ fetchCalls <= retryAttempts
  /\ \A k \in 1..Len(backoffs) : backoffs[k] = DefaultBackoff * Pow2(k - 1)
  /\ failure \in {"network", "http"} => fetchCalls = retryAttempts

\* C27: once the deadline has aborted the request, no further fetch is
\* started for it.
C27_NoFetchAfterAbort ==
  [][aborted => fetchCalls' = fetchCalls]_<<vars, aux>>

\* ------------------------------------------------------------------------
\* The engine over a storage that fails
\* ------------------------------------------------------------------------

\* The engine's initial state in a browser whose storage fails from the
\* start: "quota" - setItem throws; "denied" - every access to localStorage
\* throws (getItem, setItem and removeItem)
StorageInit ==
  /\ mounted = TRUE
  /\ path \in Pages
  /\ currentPathRef = path
  /\ components = <<>>
  /\ componentsRef = <<>>
  /\ highlightedSelectors = {}
  /\ timeouts = {}
  /\ activeWalkthrough = Null
  /\ activeWalkthroughRef = Null
  /\ storage = Null
  /\ storageFault \in {"quota", "denied"}
  /\ ScannerIdle
  /\ GraphIdle
  /\ timers = EmptyBag
  /\ now = 0
  /\ fired = NoneFired
  /\ stopped = FALSE
  /\ timeoutHandles = [s \in Selectors |-> 0]
  /\ pendingTimeouts = {}
  /\ nextHandle = 1
  /\ superseded = {}
  /\ resolution = Null
  /\ ClientIdle

StorageSpec == StorageInit /\ [][Next]_<<vars, aux>>

\* stopWalkthrough is called and its id check lets the call through
StopRuns ==
  \E id \in 0..MaxClock : StopApplies(id) /\ stopWalkthrough(id)

\* startWalkthrough is called
StartRuns ==
  \E steps \in StepLists, callbacks \in CallbackChoices, t \in 1..MaxClock :
    startWalkthrough(steps, callbacks, t)

\* C28: a storage operation that throws never blocks a walkthrough
\* transition - with a failing storage, a start still makes the new
\* walkthrough the active one at its first step, an advance still moves the
\* active walkthrough to the next step, a completion still fires onComplete
\* and leaves no active walkthrough, and a stop still clears the highlights
\* and leaves no active walkthrough.
C28_StorageFaultTolerated ==
  [][ storageFault # "none"
       => /\ StartRuns
               => /\ activeWalkthrough' # Null
                  /\ activeWalkthrough'.id = now'
                  /\ activeWalkthrough'.currentStepIndex = 0
          /\ ProgressRuns
               => LET wt == activeWalkthroughRef
                  IN  IF NextIndex(wt) >= Len(wt.steps)
                      THEN /\ fired'.onComplete = (IF wt.onComplete THEN 1 ELSE 0)
                           /\ activeWalkthrough' = Null
                      ELSE /\ activeWalkthrough' # Null
                           /\ activeWalkthrough'.id = wt.id
                           /\ activeWalkthrough'.currentStepIndex = NextIndex(wt)
          /\ StopRuns
               => /\ highlightedSelectors' = {}
                  /\ timeouts' = {}
                  /\ activeWalkthrough' = Null ]_<<vars, aux>>

\* ------------------------------------------------------------------------
\* The orchestrator's transport: HttpAgentOrchestrator.orchestrate
\* ------------------------------------------------------------------------

\* the backend answers the request with an event stream
StreamInit ==
  /\ ClientInit
  /\ agentResponse.kind = "sse"

\* sendMessage calls orchestrate: a new controller, the abort timer is set
\* for the configured timeout and fetch is called with the controller's signal
sendMessageStreaming ==
  /\ pushRequest
  /\ aborted' = FALSE
  /\ abortTimer' = TRUE
  /\ fetchState' = "inflight"
  /\ fetchCalls' = 1
  /\ deadlinePassed' = FALSE
  /\ UNCHANGED <<retryAttempts, attempt, backoffs>>

\* fetch resolves with the headers of a 2xx text/event-stream response:
\* clearTimeout(timeoutId), then handleSSEStream starts to read the body
responseArrives ==
  /\ phase = "streaming"
  /\ fetchState = "inflight"
  /\ fetchState' = "settled"
  /\ abortTimer' = FALSE
  /\ UNCHANGED <<agentResponse, normalized, messageHistory, phase, delivered,
                 collected, handlerCalls, streamingContent, requestVars>>
  /\ UNCHANGED <<retryAttempts, attempt, fetchCalls, aborted, backoffs, failure,
                 deadlinePassed>>
  /\ UNCHANGED engineAndResolver

\* handleSSEStream reads the next event of the body
readEvent ==
  /\ fetchState = "settled"
  /\ handleSSEEvent

\* the body is read to its end and orchestrate returns
streamReturns(tick) ==
  /\ fetchState = "settled"
  /\ orchestrateReturns(tick)

\* the stream of the running request has not ended
StreamOpen ==
  /\ phase = "streaming"
  /\ fetchState = "inflight" \/ delivered < Len(agentResponse.events)

\* The configured timeout elapses while the stream is open.  A pending abort
\* timer runs controller.abort(): the fetch rejects with an AbortError,
\* orchestrate calls onError and throws the timeout error, and sendMessage
\* removes the placeholder and rejects.  A cleared timer does nothing.
deadlineElapses ==
  /\ StreamOpen
  /\ ~deadlinePassed
  /\ deadlinePassed' = TRUE
  /\ IF abortTimer
     THEN /\ abortTimer' = FALSE
          /\ aborted' = TRUE
          /\ fetchState' = "settled"
          /\ callbackLog' = Append(callbackLog, "onError")
          /\ messageHistory' = RemovePlaceholder(messageHistory, StreamingMessageId)
          /\ phase' = "rejected"
          /\ failure' = "timeout"
     ELSE UNCHANGED <<abortTimer, aborted, fetchState, callbackLog,
                      messageHistory, phase, failure>>
  /\ UNCHANGED <<agentResponse, normalized, delivered, collected, handlerCalls,
                 streamingContent, currentSessionId, requests, pendingReplies>>
  /\ UNCHANGED <<retryAttempts, attempt, fetchCalls, backoffs>>
  /\ UNCHANGED engineAndResolver

StreamNext ==
  \/ sendMessageStreaming
  \/ responseArrives
  \/ readEvent
  \/ \E tick \in 1..(2 * Len(requests)) : streamReturns(tick)
  \/ deadlineElapses

StreamSpec == StreamInit /\ [][StreamNext]_<<vars, aux>>

\* C31: a streaming request is abortable for its whole lifetime - once the
\* configured deadline has elapsed while the stream was open, before or
\* after the response headers arrived, the request is aborted and has failed
\* with the timeout error, it never resolves with a message, and no
\* onComplete is fired for the stream from then on.
C31_AbortableWhileStreaming ==
  /\ [](deadlinePassed
          => aborted /\ phase = "rejected" /\ failure = "timeout")
  /\ [][deadlinePassed
          => Count(callbackLog', "onComplete") <= Count(callbackLog, "onComplete")
       ]_<<vars, aux>>

\* ------------------------------------------------------------------------
\* stopWalkthrough and the walkthrough of the rendered state
\* ------------------------------------------------------------------------

\* C32: stopWalkthrough(id) stops the walkthrough - no highlights, no
\* persisted state, no active walkthrough - exactly when id is the id of the
\* walkthrough that was started last and has not finished, also when the
\* call follows the startWalkthrough call that returned id at once; with
\* any other id it changes nothing.
C32_StopById ==
  [][\A id \in 1..MaxClock :
       stopWalkthrough(id)
         => IF activeWalkthrough # Null /\ activeWalkthrough.id = id
            THEN /\ highlightedSelectors' = {}
                 /\ timeouts' = {}
                 /\ storage' = Null
                 /\ activeWalkthrough' = Null
            ELSE UNCHANGED <<highlightedSelectors, timeouts, storage,
                             activeWalkthrough>>]_vars

\* ------------------------------------------------------------------------
\* HighlightScanner: the elements with ids are registered by rescans
\* ------------------------------------------------------------------------

\* the elements with an id that the host page may render, in document order
ScanOrder == <<IdA, OtherId>>

\* String.prototype.startsWith
StartsWith(s, prefix) ==
  Len(prefix) <= Len(s) /\ SubSeq(s, 1, Len(prefix)) = prefix

ToUpperChar(c) ==
  IF \E i \in 1..Len(LowerChars) : LowerChars[i] = c
  THEN UpperChars[CHOOSE i \in 1..Len(LowerChars) : LowerChars[i] = c]
  ELSE c

\* the ids the scanner leaves to Vite, React and Headless UI
IsInternalId(id) ==
  \/ StartsWith(id, <<"v","i","t","e","-">>)
  \/ StartsWith(id, <<"r","e","a","c","t","-">>)
  \/ Includes(id, <<"h","e","a","d","l","e","s","s","u","i">>)

\* the friendly name of an id: '-' and '_' become spaces and the first
\* letter of every word between single spaces is capitalised
FriendlyName(id) ==
  LET spaced == [i \in 1..Len(id) |->
                   IF id[i] \in {"-", "_"} THEN " " ELSE id[i]]
  IN  [i \in 1..Len(id) |->
         IF i = 1 \/ spaced[i - 1] = " "
         THEN ToUpperChar(spaced[i]) ELSE spaced[i]]

\* the descriptor scanAndRegister builds for an element without data
\* attributes; the element of the k-th id is element k
ScannedComponent(k) ==
  [id |-> ScanOrder[k], name |-> FriendlyName(ScanOrder[k]),
   description |-> <<>>,
   keywords |-> <<ScanOrder[k], ToLowerCase(FriendlyName(ScanOrder[k]))>>,
   element |-> k]

\* the ids of the elements a scan collects (currentIds): elements with an
\* internal id or with a data-highlight-id attribute are passed over
CurrentIds ==
  {id \in DOMAIN document : document[id] = "plain" /\ ~IsInternalId(id)}

\* setComponents of registerComponent
RegisterInto(comps, component) ==
  LET existing == MapGet(comps, component.id)
  IN  IF existing # NoComponent
           /\ existing.element = component.element
           /\ existing.name = component.name
           /\ existing.keywords = component.keywords
      THEN comps
      ELSE MapSet(comps, component)

\* the first loop of scanAndRegister from the k-th element on
RECURSIVE RegisterFrom(_, _)
RegisterFrom(comps, k) ==
  IF k > Len(ScanOrder) THEN comps
  ELSE IF ScanOrder[k] \in CurrentIds /\ ScanOrder[k] \notin registeredIds
       THEN RegisterFrom(RegisterInto(comps, ScannedComponent(k)), k + 1)
       ELSE RegisterFrom(comps, k + 1)

\* the second loop of scanAndRegister from the k-th id on: what is recorded
\* as registered and was not collected is unregistered
RECURSIVE UnregisterFrom(_, _)
UnregisterFrom(comps, k) ==
  IF k > Len(ScanOrder) THEN comps
  ELSE IF ScanOrder[k] \in registeredIds /\ ScanOrder[k] \notin CurrentIds
       THEN UnregisterFrom(MapDelete(comps, ScanOrder[k]), k + 1)
       ELSE UnregisterFrom(comps, k + 1)

\* the page as the host first renders it
ScannerInit ==
  /\ mounted = TRUE
  /\ path \in Pages
  /\ currentPathRef = path
  /\ components = <<>>
  /\ componentsRef = <<>>
  /\ highlightedSelectors = {}
  /\ timeouts = {}
  /\ activeWalkthrough = Null
  /\ activeWalkthroughRef = Null
  /\ storage = Null
  /\ storageFault = "none"
  /\ document \in [ClickIds -> {"absent", "plain"}]
  /\ registeredIds = {}
  /\ GraphIdle
  /\ timers = EmptyBag
  /\ now = 0
  /\ fired = NoneFired
  /\ stopped = FALSE
  /\ timeoutHandles = [s \in Selectors |-> 0]
  /\ pendingTimeouts = {}
  /\ nextHandle = 1
  /\ superseded = {}
  /\ resolution = Null
  /\ ClientIdle

\* what the scanner and the host's DOM changes leave alone
scannerFrame ==
  <<mounted, path, currentPathRef, timeouts, activeWalkthrough,
    activeWalkthroughRef, storage, timers, now, stopped, timeoutHandles,
    pendingTimeouts, nextHandle, superseded, resolution, clientVars,
    storageFault, graphVars>>

\* scanAndRegister (the initial scan, or the debounced scan after a change
\* of the document)
scanAndRegister ==
  /\ mounted
  /\ components' = UnregisterFrom(RegisterFrom(components, 1), 1)
  /\ registeredIds' = (registeredIds \cup CurrentIds) \cap CurrentIds
  /\ fired' = NoneFired
  /\ UNCHANGED <<componentsRef, highlightedSelectors, document>>
  /\ UNCHANGED scannerFrame

\* highlightComponent(query) without a duration: the element of the
\* component found gets the data-highlight-id attribute and the selector
\* of that attribute is highlighted
highlightComponentCall(query) ==
  /\ mounted
  /\ highlightedSelectors' = highlightComponentSet(highlightedSelectors, query)
  /\ document' =
       IF highlightComponentOk(query)
            /\ findComponent(query).id \in DOMAIN document
            /\ document[findComponent(query).id] = "plain"
       THEN [document EXCEPT ![findComponent(query).id] = "marked"]
       ELSE document
  /\ fired' = NoneFired
  /\ UNCHANGED <<components, componentsRef, registeredIds>>
  /\ UNCHANGED scannerFrame

\* the host renders an element with this id
elementAdded(id) ==
  /\ document[id] = "absent"
  /\ document' = [document EXCEPT ![id] = "plain"]
  /\ fired' = NoneFired
  /\ UNCHANGED <<components, componentsRef, highlightedSelectors, registeredIds>>
  /\ UNCHANGED scannerFrame

\* the host removes the element with this id
elementRemoved(id) ==
  /\ document[id] # "absent"
  /\ document' = [document EXCEPT ![id] = "absent"]
  /\ fired' = NoneFired
  /\ UNCHANGED <<components, componentsRef, highlightedSelectors, registeredIds>>
  /\ UNCHANGED scannerFrame

ScannerNext ==
  \/ scanAndRegister
  \/ CommitEffects
  \/ \E query \in ClickIds : highlightComponentCall(query)
  \/ \E id \in ClickIds : elementAdded(id)
  \/ \E id \in ClickIds : elementRemoved(id)

ScannerSpec == ScannerInit /\ [][ScannerNext]_<<vars, aux>>

\* C33: every element that HighlightScanner has registered stays registered
\* for as long as it remains in the document - no highlightComponent call
\* and no rescan takes an element that is present before and after the step
\* out of the scanner's record or out of the registry.
C33_RegisteredWhilePresent ==
  [][\A id \in DOMAIN document :
       ( /\ id \in registeredIds
         /\ MapGet(components, id) # NoComponent
         /\ document[id] # "absent"
         /\ document'[id] # "absent" )
         => /\ id \in registeredIds'
            /\ MapGet(components', id) # NoComponent]_<<vars, aux>>

\* ------------------------------------------------------------------------
\* Steps without a duration
\* ------------------------------------------------------------------------

\* a step that gives no duration and sets waitForClick to false
UntimedStep == [query |-> <<"a">>, page |-> "", duration |-> 0,
                waitForClick |-> "false"]

UntimedStepLists ==
  { <<ClickStep, UntimedStep>>,
    <<TimedStep, UntimedStep>> }

\* the engine with walkthroughs that contain such a step
UntimedNext ==
  \/ \E id \in 0..MaxClock : stopWalkthrough(id)
  \/ CommitEffects
  \/ \E c \in Candidates : registerComponent(c)
  \/ \E id \in ComponentIds : unregisterComponent(id)
  \/ \E id \in ClickIds : notifyComponentClick(id)
  \/ \E steps \in UntimedStepLists, callbacks \in CallbackChoices, t \in 1..MaxClock :
       startWalkthrough(steps, callbacks, t)
  \/ \E t \in BagToSet(timers) : SettleFire(t)
  \/ \E t \in BagToSet(timers) : AdvanceFire(t)
  \/ \E selector \in timeouts : ExpireFire(selector)
  \/ \E p \in Pages : Navigate(p)
  \/ handleLocationChange
  \/ \E p \in Pages : Bootstrap(p)

UntimedSpec == Init /\ [][UntimedNext]_vars

\* the current step of the walkthrough in the ref has no duration, its query
\* resolves to the component with this id and that component is highlighted
UntimedStepHighlighted(c) ==
  /\ activeWalkthroughRef # Null
  /\ activeWalkthroughRef.steps # <<>>
  /\ LET step == CurrentStep(activeWalkthroughRef)
         found == findComponentIn(componentsRef, step.query)
     IN  /\ step.duration = 0
         /\ found # NoComponent
         /\ found.id = c
         /\ c \in highlightedSelectors

\* C34: a step whose duration is omitted waits for a click - whatever its
\* waitForClick value, a click on the step's resolved, highlighted component
\* advances the walkthrough: in every state in which such a step is
\* current, the click handler run on that component yields the advance.
C34_UntimedStepWaitsForClick ==
  \A c \in ClickIds :
    (mounted /\ BagCardinality(timers) < MaxTimers /\ UntimedStepHighlighted(c))
      => ENABLED (notifyComponentClick(c) /\ AdvancedFrom(activeWalkthroughRef))

\* ------------------------------------------------------------------------
\* Highlight actions whose strings are no selectors
\* ------------------------------------------------------------------------

\* the selector strings of these highlight actions: a selector, a string
\* with an attribute block that is not closed, and a name with a character
\* that no selector has
BrokenAttr == <<"a","[">>
BrokenName == <<"z","!">>
FaultySelectors == {HashA, BrokenAttr, BrokenName}

SelectorInit ==
  /\ mounted = TRUE
  /\ path = "/"
  /\ currentPathRef = path
  /\ components \in {<<>>, <<CompA>>}
  /\ componentsRef = components
  /\ highlightedSelectors = {}
  /\ timeouts = {}
  /\ activeWalkthrough = Null
  /\ activeWalkthroughRef = Null
  /\ storage = Null
  /\ storageFault = "none"
  /\ ScannerIdle
  /\ GraphIdle
  /\ timers = EmptyBag
  /\ now = 0
  /\ fired = NoneFired
  /\ stopped = FALSE
  /\ timeoutHandles =
       [s \in FaultySelectors \cup {DataHighlightSelector(c.id) : c \in Candidates}
          |-> 0]
  /\ pendingTimeouts = {}
  /\ nextHandle = 1
  /\ superseded = {}
  /\ resolution = Null
  /\ ClientIdle

SelectorNext ==
  \/ \E t \in pendingTimeouts : TimeoutFire(t)
  \/ \E selector \in FaultySelectors, duration \in Durations :
       handleHighlight(selector, duration)
  \/ \E selector \in FaultySelectors : unhighlight(selector)
  \/ clearAll

SelectorSpec == SelectorInit /\ [][SelectorNext]_<<vars, aux>>

\* C35: a highlight call that fails because its string is not a valid CSS
\* selector leaves the highlight state unchanged - the string is not added
\* to highlightedSelectors and no timer is registered - so every later
\* clearAll still empties the highlighted set and cancels all timers.
C35_FailedHighlightLeavesNoTrace ==
  [][/\ \A selector \in FaultySelectors, duration \in Durations :
          (~IsValidSelector(selector) /\ handleHighlight(selector, duration))
            => UNCHANGED <<highlightedSelectors, pendingTimeouts, timeoutHandles>>
     /\ clearAll => (highlightedSelectors' = {} /\ pendingTimeouts' = {})
    ]_<<vars, aux>>

\* ------------------------------------------------------------------------
\* normalizeForMatching as a function of its argument
\* ------------------------------------------------------------------------

\* the strings handed to it: up to MaxChars characters, among them a capital,
\* the separators '-' and ' ', and a character that is stripped
MaxChars == 5
QueryChars == {"a", "B", "-", " ", "!"}
QueryStrings == UNION {[1..n -> QueryChars] : n \in 0..MaxChars}

\* the host calls normalizeForMatching(str), once
normalizeCall(str) ==
  /\ resolution = Null
  /\ resolution' = [input |-> str, output |-> normalizeForMatching(str)]
  /\ UNCHANGED vars
  /\ UNCHANGED <<timeoutHandles, pendingTimeouts, nextHandle, superseded,
                 clientVars, storageFault, scannerVars, graphVars>>

NormalizeNext == \E str \in QueryStrings : normalizeCall(str)

NormalizeSpec == Init /\ [][NormalizeNext]_<<vars, aux>>

\* the characters of [a-z0-9 ]
IsCanonicalChar(c) ==
  \/ \E i \in 1..Len(LowerChars) : LowerChars[i] = c
  \/ c \in DigitChars
  \/ c = " "

\* C36: query normalization is canonical and idempotent - the result has
\* only characters of [a-z0-9 ], no leading or trailing space and no run of
\* two or more spaces, and normalizing it again gives the same string.
C36_NormalizeCanonical ==
  resolution # Null =>
    LET n == resolution.output
    IN  /\ \A i \in 1..Len(n) : IsCanonicalChar(n[i])
        /\ n # <<>> => (n[1] # " " /\ n[Len(n)] # " ")
        /\ \A i \in 1..(Len(n) - 1) : ~(n[i] = " " /\ n[i + 1] = " ")
        /\ normalizeForMatching(n) = n

\* ------------------------------------------------------------------------
\* findComponent on descriptors with empty words and on empty queries
\* ------------------------------------------------------------------------

\* Descriptors: one that has the words "x" and "y"; one whose keyword list
\* ends with an empty keyword (data-highlight-keywords="s," split at the
\* commas); one whose name has no letter or digit; an ordinary one
TrailingComma == [id |-> <<"s">>, name |-> <<"S","a","v","e">>,
                  description |-> <<>>,
                  keywords |-> << <<"s">>, <<>> >>, element |-> 1]
Pictogram == [id |-> <<"p">>, name |-> <<"!">>, description |-> <<>>,
              keywords |-> <<>>, element |-> 2]
Ordinary == [id |-> <<"t">>, name |-> <<"T","o","p">>, description |-> <<>>,
             keywords |-> <<>>, element |-> 3]
TokenDescriptors == {ByWords, TrailingComma, Pictogram, Ordinary}

\* the queries: two of two words, three that normalize to the empty string,
\* an id and a miss
TokenQueries ==
  {<<"x"," ","y">>, <<"n"," ","o">>, <<>>, <<"!">>, <<" ","-">>, <<"t">>,
   <<"n","o">>}

TokenRegistries ==
  {comps \in UNION {[1..n -> TokenDescriptors] : n \in 0..MaxRegistry} :
     \A i, j \in 1..Len(comps) : comps[i].id = comps[j].id => i = j}

TokenInit ==
  /\ mounted = TRUE
  /\ path = "/"
  /\ currentPathRef = path
  /\ components \in TokenRegistries
  /\ componentsRef = components
  /\ highlightedSelectors = {}
  /\ timeouts = {}
  /\ activeWalkthrough = Null
  /\ activeWalkthroughRef = Null
  /\ storage = Null
  /\ storageFault = "none"
  /\ ScannerIdle
  /\ GraphIdle
  /\ timers = EmptyBag
  /\ now = 0
  /\ fired = NoneFired
  /\ stopped = FALSE
  /\ timeoutHandles = [s \in Selectors |-> 0]
  /\ pendingTimeouts = {}
  /\ nextHandle = 1
  /\ superseded = {}
  /\ resolution = Null
  /\ ClientIdle

TokenNext == \E query \in TokenQueries : findComponentCall(query)

TokenSpec == TokenInit /\ [][TokenNext]_<<vars, aux>>

\* the non-empty tokens of a descriptor: its normalized keywords and the
\* words of its normalized name and id
DescriptorTokens(c) ==
  LET words == [i \in 1..Len(c.keywords) |-> normalizeForMatching(c.keywords[i])]
                 \o SplitWhitespace(normalizeForMatching(c.name))
                 \o SplitWhitespace(normalizeForMatching(c.id))
  IN  {words[i] : i \in 1..Len(words)} \ {<<>>}

\* the tokens of the normalized query
QueryTokens(query) ==
  SelectSeq(SplitWhitespace(normalizeForMatching(query)), NonEmpty)

\* findComponent got its result from tier 6: no descriptor matches at the
\* tiers 1 to 5 and one does at tier 6
ReturnedByTier6 ==
  /\ resolution # Null
  /\ resolution.found # NoComponent
  /\ \A k \in 1..5 : MatchesOfTier(componentsRef, k, resolution.query) = {}
  /\ MatchesOfTier(componentsRef, 6, resolution.query) # {}

\* C37: tier 6 matches a descriptor only when the normalized query has at
\* least two tokens and every query token is a substring or a superstring of
\* some non-empty token of the descriptor's keywords, name and id.
C37_Tier6NeedsCounterparts ==
  ReturnedByTier6 =>
    LET tokens == QueryTokens(resolution.query)
    IN  /\ Len(tokens) >= 2
        /\ \A i \in 1..Len(tokens) :
             \E word \in DescriptorTokens(resolution.found) :
               Includes(word, tokens[i]) \/ Includes(tokens[i], word)

\* C38: a query whose normalized form is the empty string and that is not
\* verbatim a registered id never resolves to a descriptor.
C38_EmptyQueryResolvesToNone ==
  ( /\ resolution # Null
    /\ normalizeForMatching(resolution.query) = <<>>
    /\ MapGet(componentsRef, resolution.query) = NoComponent )
    => resolution.found = NoComponent

\* ------------------------------------------------------------------------
\* normalizeAssistantResponse on payloads with shared and cyclic references
\* ------------------------------------------------------------------------

\* the depth of nested calls the engine allows before it throws RangeError
\* (maximum call stack size exceeded)
MaxStack == 4

\* what a field or an element of the payloads holds
GraphValues == {JStr(TextHi), Ref(1), Ref(2)}

\* The payloads: the object 1, with a content or a data field and possibly
\* the role of a user, and a second object or array; every field and element
\* is a text or a reference to one of the two
RootObjects ==
  {ObjectOf(<< <<"role", role>>, <<key, value>> >>) :
     role \in {Undefined, JStr(RoleUser)}, key \in {"content", "data"},
     value \in GraphValues}

InnerNodes ==
  {JObj(<< <<key, value>> >>) : key \in {"text", "message"}, value \in GraphValues}
    \cup {JArr(<<value>>) : value \in GraphValues}
    \cup {JArr(<<first, second>>) : first, second \in GraphValues}

Heaps == {<<root, inner>> : root \in RootObjects, inner \in InnerNodes}

GraphInit ==
  /\ mounted = TRUE
  /\ path = "/"
  /\ currentPathRef = path
  /\ components = <<>>
  /\ componentsRef = <<>>
  /\ highlightedSelectors = {}
  /\ timeouts = {}
  /\ activeWalkthrough = Null
  /\ activeWalkthroughRef = Null
  /\ storage = Null
  /\ storageFault = "none"
  /\ ScannerIdle
  /\ heap \in Heaps
  /\ search = Null
  /\ extraction = Null
  /\ outcome = Null
  /\ timers = EmptyBag
  /\ now = 0
  /\ fired = NoneFired
  /\ stopped = FALSE
  /\ timeoutHandles = [s \in Selectors |-> 0]
  /\ pendingTimeouts = {}
  /\ nextHandle = 1
  /\ superseded = {}
  /\ resolution = Null
  /\ ClientIdle

\* what the normalization does not touch
graphFrame ==
  <<vars, timeoutHandles, pendingTimeouts, nextHandle, superseded, resolution,
    clientVars, storageFault, scannerVars, heap>>

\* the thrown RangeError
RangeError == [ok |-> FALSE, content |-> <<>>, id |-> Undefined,
               name |-> "RangeError"]

\* what stringifyContent(value, visited) goes on to call itself with for an
\* array or an object it has not seen: the elements, the first content key,
\* the choices, the first list key, or the response
ContentItems(value) ==
  IF IsArray(value) THEN At(value).v
  ELSE IF \E i \in 1..Len(ContentKeys) : HasKey(value, ContentKeys[i])
  THEN LET first == CHOOSE i \in 1..Len(ContentKeys) :
                      /\ HasKey(value, ContentKeys[i])
                      /\ \A j \in 1..(i - 1) : ~HasKey(value, ContentKeys[j])
       IN  <<Get(value, ContentKeys[first])>>
  ELSE IF HasKey(value, "choices") /\ IsArray(Get(value, "choices"))
  THEN LET choices == At(Get(value, "choices")).v
       IN  [i \in 1..Len(choices) |->
              Coalesce(<<Get(choices[i], "message"), Get(choices[i], "delta"),
                         Get(choices[i], "content"), Get(choices[i], "text")>>)]
  ELSE IF \E i \in 1..Len(ListKeys) :
            HasKey(value, ListKeys[i]) /\ IsArray(Get(value, ListKeys[i]))
  THEN LET first == CHOOSE i \in 1..Len(ListKeys) :
                      /\ HasKey(value, ListKeys[i]) /\ IsArray(Get(value, ListKeys[i]))
                      /\ \A j \in 1..(i - 1) :
                           ~(HasKey(value, ListKeys[j]) /\ IsArray(Get(value, ListKeys[j])))
       IN  <<Get(value, ListKeys[first])>>
  ELSE IF HasKey(value, "response") THEN <<Get(value, "response")>>
  ELSE <<>>

\* entering stringifyContent(value, visited) in the call state ex: null gives
\* nothing, a string its text; an array is mapped whether seen or not; an
\* object is followed unless it is in visited
EnterContent(ex, value) ==
  IF IsNullish(value) THEN ex
  ELSE IF IsString(value) THEN [ex EXCEPT !.text = @ \o value.v]
  ELSE IF IsArray(value)
  THEN [ex EXCEPT !.stack = Append(@, [items |-> ContentItems(value), next |-> 1]),
                  !.entered = Append(@, value)]
  ELSE IF value \in ex.visited THEN ex
  ELSE [ex EXCEPT !.visited = @ \cup {value},
                  !.stack = Append(@, [items |-> ContentItems(value), next |-> 1]),
                  !.entered = Append(@, value)]

\* normalizeAssistantResponse(payload) is called with the object 1: the
\* payload is enqueued
normalizeGraphCall ==
  /\ search = Null
  /\ outcome = Null
  /\ search' = [scan |-> enqueue([queue |-> <<>>, visited |-> {}], Ref(1)),
                fallback |-> NormalizationError,
                current |-> Null,
                shifted |-> <<>>]
  /\ UNCHANGED <<extraction, outcome>>
  /\ UNCHANGED graphFrame

\* queue.shift(), and stringifyContent is called with the content of the node
shiftQueue ==
  /\ search # Null
  /\ outcome = Null
  /\ search.current = Null
  /\ search.scan.queue # <<>>
  /\ LET current == Head(search.scan.queue)
     IN  /\ search' = [search EXCEPT !.scan.queue = Tail(@),
                                     !.current = current,
                                     !.shifted = Append(@, current)]
         /\ extraction' =
              EnterContent([stack |-> <<>>, visited |-> {}, text |-> <<>>,
                            entered |-> <<>>],
                           Coalesce(<<Get(current, "content"),
                                      Get(current, "output_text"),
                                      Get(current, "outputText"),
                                      Get(current, "text")>>))
  /\ UNCHANGED outcome
  /\ UNCHANGED graphFrame

\* the innermost running call of stringifyContent returns, or makes its next
\* nested call
stringifyStep ==
  /\ extraction # Null
  /\ outcome = Null
  /\ extraction.stack # <<>>
  /\ Len(extraction.stack) <= MaxStack
  /\ LET depth == Len(extraction.stack)
         top == extraction.stack[depth]
     IN  extraction' =
           IF top.next > Len(top.items)
           THEN [extraction EXCEPT !.stack = SubSeq(@, 1, depth - 1)]
           ELSE EnterContent([extraction EXCEPT !.stack[depth].next = @ + 1],
                             top.items[top.next])
  /\ UNCHANGED <<search, outcome>>
  /\ UNCHANGED graphFrame

\* the nested calls exceed the call stack: RangeError leaves
\* normalizeAssistantResponse
callStackExceeded ==
  /\ extraction # Null
  /\ outcome = Null
  /\ Len(extraction.stack) > MaxStack
  /\ outcome' = RangeError
  /\ UNCHANGED <<search, extraction>>
  /\ UNCHANGED graphFrame

\* stringifyContent has returned: the node is a candidate if its content is
\* not blank, and its nested candidates and values are enqueued
examineCurrent ==
  /\ search # Null
  /\ outcome = Null
  /\ search.current # Null
  /\ extraction # Null
  /\ extraction.stack = <<>>
  /\ LET current == search.current
         content == Trim(extraction.text)
         candidate == Normalized(content, Get(current, "id"))
     IN  IF content # <<>> /\ AcceptsRole(resolveRole(current))
         THEN /\ outcome' = candidate
              /\ UNCHANGED search
         ELSE /\ search' =
                   [search EXCEPT
                      !.scan = EnqueueAll(@, SpreadAll(nestedCandidates(current))
                                               \o SpreadAll(ObjectValues(current))),
                      !.fallback = IF content # <<>> /\ ~@.ok THEN candidate ELSE @,
                      !.current = Null]
              /\ UNCHANGED outcome
  /\ extraction' = Null
  /\ UNCHANGED graphFrame

\* the queue is empty: the fallback is returned, or the error is thrown
queueExhausted ==
  /\ search # Null
  /\ outcome = Null
  /\ search.current = Null
  /\ search.scan.queue = <<>>
  /\ outcome' = search.fallback
  /\ UNCHANGED <<search, extraction>>
  /\ UNCHANGED graphFrame

GraphNext ==
  \/ normalizeGraphCall
  \/ shiftQueue
  \/ stringifyStep
  \/ callStackExceeded
  \/ examineCurrent
  \/ queueExhausted

GraphSpec == GraphInit /\ [][GraphNext]_<<vars, aux>>

\* how often a value occurs in a sequence
Occurrences(seq, value) == Cardinality({i \in 1..Len(seq) : seq[i] = value})

\* the call has not ended, or it ended with a message or with the
\* normalization error
EndsWithMessageOrError ==
  outcome # Null => outcome.ok \/ outcome = NormalizationError

====
